---------------------------- MODULE Spec2Model ----------------------------
(***************************************************************************)
(* Model of the DCF valuation engine (src/modeling/dcf.py) and of the      *)
(* sensitivity sweep that drives it (src/main.py).                         *)
(*                                                                         *)
(* Python floats are modelled as exact rationals <<n, d>> in lowest terms  *)
(* with d > 0.  The value None is the pair <<0, 0>>.  A statement record   *)
(* (a Python dict) is a function from field names to integers; a field     *)
(* that the dict lacks is outside its DOMAIN.  A statement date is the     *)
(* triple <<year, month, day>>; date[0:4] parsed as an int is its year.    *)
(* A function outcome is a record whose field exc is "" on a normal        *)
(* return and the name of the raised exception otherwise.                  *)
(***************************************************************************)
EXTENDS Integers, Sequences, FiniteSets, TLC

(***************************************************************************)
(* Bounds of the model.                                                    *)
(***************************************************************************)
MaxHorizon == 2
MaxListLen == 3
DefaultsHorizon == 1

(***************************************************************************)
(* Exact rational arithmetic standing for float arithmetic.                *)
(***************************************************************************)
Abs(i) == IF i < 0 THEN -i ELSE i

RECURSIVE GCD(_, _)
GCD(a, b) == IF b = 0 THEN a ELSE GCD(b, a % b)

Norm(n, d) ==
    LET g == GCD(Abs(n), Abs(d))
        s == IF d < 0 THEN -1 ELSE 1
    IN  <<s * (n \div g), s * (d \div g)>>

R(n, d) == Norm(n, d)
float(i) == <<i, 1>>
None == <<0, 0>>
IsNone(x) == x[2] = 0

RAdd(x, y) ==
    LET g == GCD(x[2], y[2])
        l == (x[2] \div g) * y[2]
    IN  Norm(x[1] * (l \div x[2]) + y[1] * (l \div y[2]), l)
RNeg(x) == <<-x[1], x[2]>>
RSub(x, y) == RAdd(x, RNeg(y))
RMul(x, y) ==
    LET a == Norm(x[1], y[2])
        b == Norm(y[1], x[2])
    IN  IF x[1] = 0 \/ y[1] = 0 THEN <<0, 1>> ELSE <<a[1] * b[1], a[2] * b[2]>>
RInv(x) == Norm(x[2], x[1])
RDiv(x, y) == RMul(x, RInv(y))
RECURSIVE RPow(_, _)
RPow(x, k) == IF k = 0 THEN <<1, 1>> ELSE RMul(x, RPow(x, k - 1))
RLt(x, y) == x[1] * y[2] < y[1] * x[2]
RLe(x, y) == x[1] * y[2] <= y[1] * x[2]
One == <<1, 1>>
Zero == <<0, 1>>

RECURSIVE RSum(_)
RSum(s) == IF s = <<>> THEN Zero ELSE RAdd(s[1], RSum(Tail(s)))

(***************************************************************************)
(* DCFConfig: the module-level configuration.                              *)
(***************************************************************************)
working_capital_decay_rate == R(7, 10)
default_earnings_growth_rate == R(1, 20)
default_capex_growth_rate == R(9, 200)

(***************************************************************************)
(* dict access.                                                            *)
(***************************************************************************)
Has(rec, f) == f \in DOMAIN rec
\* dict.get(f) used as a condition: true iff the field is present and nonzero
Truthy(rec, f) == Has(rec, f) /\ rec[f] # 0
Without(rec, f) == [g \in (DOMAIN rec) \ {f} |-> rec[g]]
\* int(date[0:4])
YearOf(date) == date[1]

(***************************************************************************)
(* ulFCF                                                                   *)
(***************************************************************************)
\* a variant that subtracts the capital expenditure
ulFCFCapexSubtracted(ebit, tax_rate, non_cash_charges, cwc, cap_ex) ==
    RSub(RAdd(RAdd(RMul(ebit, RSub(One, tax_rate)), non_cash_charges), cwc), cap_ex)

ulFCF(ebit, tax_rate, non_cash_charges, cwc, cap_ex) ==
    RAdd(RAdd(RAdd(RMul(ebit, RSub(One, tax_rate)), non_cash_charges), cwc), cap_ex)

(***************************************************************************)
(* enterprise_value, lines 349-377: the growth schedules.  The override    *)
(* is [kind |-> "None"], [kind |-> "dict", map |-> year -> rate],          *)
(* [kind |-> "list", items |-> sequence of rates] or [kind |-> "other"]    *)
(* (any value that is neither).  The result has exc = "ValueError" for the *)
(* last and "KeyError" when the dict branch finds no date.                 *)
(***************************************************************************)
\* a variant that pads a short list with zero growth
PadWithZero(growth_rates, period, rate) ==
    growth_rates \o [i \in 1..(period - Len(growth_rates)) |-> Zero]

RECURSIVE PadTo(_, _, _)
\* while len(growth_rates) < period: growth_rates.append(earnings_growth_rate)
PadTo(growth_rates, period, rate) ==
    IF Len(growth_rates) < period
    THEN PadTo(Append(growth_rates, rate), period, rate)
    ELSE growth_rates

\* a variant that forgets to trim a schedule that is too long
TrimToKeepsAll(growth_rates, period) == growth_rates

\* growth_rates[:period]
TrimTo(growth_rates, period) ==
    SubSeq(growth_rates, 1, IF Len(growth_rates) < period THEN Len(growth_rates) ELSE period)

Replicate(x, n) == [i \in 1..n |-> x]

\* a variant that counts the forecast years from the base year itself
DictScheduleFromBaseYear(map, base_year, period, earnings_growth_rate) ==
    [i \in 1..period |->
        IF (base_year + (i - 1)) \in DOMAIN map
        THEN map[base_year + (i - 1)]
        ELSE earnings_growth_rate]

DictSchedule(map, base_year, period, earnings_growth_rate) ==
    [i \in 1..period |->
        IF (base_year + (i - 1) + 1) \in DOMAIN map
        THEN map[base_year + (i - 1) + 1]
        ELSE earnings_growth_rate]

ListSchedule(items, period, earnings_growth_rate) ==
    TrimTo(PadTo(items, period, earnings_growth_rate), period)

\* a variant that never looks at the shape of the override
BuildSchedulesAnyShape(income0, period, earnings_growth_rate, cap_ex_growth_rate, variable_growth_rates) ==
    [exc |-> "", growth_rates |-> Replicate(earnings_growth_rate, period),
     cap_ex_growth_rates |-> Replicate(cap_ex_growth_rate, period)]

BuildSchedules(income0, period, earnings_growth_rate, cap_ex_growth_rate, variable_growth_rates) ==
    IF variable_growth_rates.kind = "None"
    THEN LET eg == IF IsNone(earnings_growth_rate)
                   THEN default_earnings_growth_rate ELSE earnings_growth_rate
             cg == IF IsNone(cap_ex_growth_rate)
                   THEN default_capex_growth_rate ELSE cap_ex_growth_rate
         IN  [exc |-> "", growth_rates |-> Replicate(eg, period),
              cap_ex_growth_rates |-> Replicate(cg, period)]
    ELSE IF variable_growth_rates.kind = "dict"
    THEN IF ~Has(income0, "date")
         THEN [exc |-> "KeyError", growth_rates |-> <<>>, cap_ex_growth_rates |-> <<>>]
         ELSE LET gr == DictSchedule(variable_growth_rates.map, YearOf(income0["date"]),
                                     period, earnings_growth_rate)
              IN  [exc |-> "", growth_rates |-> gr, cap_ex_growth_rates |-> gr]
    ELSE IF variable_growth_rates.kind = "list"
    THEN LET gr == ListSchedule(variable_growth_rates.items, period, earnings_growth_rate)
         IN  [exc |-> "", growth_rates |-> gr, cap_ex_growth_rates |-> gr]
    ELSE [exc |-> "ValueError", growth_rates |-> <<>>, cap_ex_growth_rates |-> <<>>]

(***************************************************************************)
(* enterprise_value, lines 396-419: the forecast loop from year yr on,     *)
(* carrying the running ebit, non_cash_charges, cwc, cap_ex, the list of   *)
(* discounted flows, and rows, the figures of each year as the loop logs   *)
(* them at lines 422-425.                                                  *)
(***************************************************************************)
\* the logged row of one forecast year
YearRow(year_growth_rate, PV_flow, ebit, non_cash_charges, cwc, cap_ex) ==
    [year_growth_rate |-> year_growth_rate, PV_flow |-> PV_flow, ebit |-> ebit,
     non_cash_charges |-> non_cash_charges, cwc |-> cwc, cap_ex |-> cap_ex]

\* a variant that multiplies by the rate alone
GrowByRateOnly(value, rate) == RMul(value, rate)

\* lines 403-410: value * (1 + rate), applied to the base in year 1 and to
\* the previous year's value afterwards
Grow(value, rate) == RMul(value, RAdd(One, rate))

\* a variant that leaves the working capital term as it is
DecayNotApplied(cwc) == cwc

\* line 414: cwc * DCF_CONFIG.working_capital_decay_rate
Decay(cwc) == RMul(cwc, working_capital_decay_rate)

RECURSIVE Forecast(_, _, _, _, _, _, _, _, _, _, _, _)
Forecast(yr, period, ebit, non_cash_charges, cwc, cap_ex, tax_rate, discount, growth_rates, cap_ex_growth_rates, flows, rows) ==
    IF yr > period THEN [exc |-> "", flows |-> flows, rows |-> rows]
    ELSE LET year_growth_rate == growth_rates[yr]
             year_capex_growth_rate == cap_ex_growth_rates[yr]
         IN  IF IsNone(year_growth_rate) \/ IsNone(year_capex_growth_rate)
             THEN [exc |-> "TypeError", flows |-> flows, rows |-> rows]
             ELSE LET ebit2 == Grow(ebit, year_growth_rate)
                      ncc2 == Grow(non_cash_charges, year_growth_rate)
                      capex2 == Grow(cap_ex, year_capex_growth_rate)
                      cwc2 == Decay(cwc)
                      flow == ulFCF(ebit2, tax_rate, ncc2, cwc2, capex2)
                      denom == RPow(RAdd(One, discount), yr)
                  IN  IF denom[1] = 0
                      THEN [exc |-> "ZeroDivisionError", flows |-> flows, rows |-> rows]
                      ELSE Forecast(yr + 1, period, ebit2, ncc2, cwc2, capex2, tax_rate,
                                    discount, growth_rates, cap_ex_growth_rates,
                                    Append(flows, RDiv(flow, denom)),
                                    Append(rows, YearRow(year_growth_rate,
                                                         RDiv(flow, denom), ebit2, ncc2,
                                                         cwc2, capex2)))

(***************************************************************************)
(* enterprise_value, lines 427-434: terminal value and the returned sum.   *)
(***************************************************************************)
\* a variant that discounts the terminal value over the horizon only
TerminalExponentHorizon(period) == period

\* the exponent of line 432
TerminalExponent(period) == 1 + period

Terminal(flows, period, discount, perpetual_growth_rate) ==
    IF flows = <<>> THEN [exc |-> "IndexError", value |-> Zero]
    ELSE LET NPV_FCF == RSum(flows)
             final_cashflow == RMul(flows[Len(flows)], RAdd(One, perpetual_growth_rate))
             spread == RSub(discount, perpetual_growth_rate)
         IN  IF spread[1] = 0 THEN [exc |-> "ZeroDivisionError", value |-> Zero]
             ELSE LET TV == RDiv(final_cashflow, spread)
                      NPV_TV == RDiv(TV, RPow(RAdd(One, discount), TerminalExponent(period)))
                  IN  [exc |-> "", value |-> RAdd(NPV_TV, NPV_FCF)]

(***************************************************************************)
(* enterprise_value, lines 324-346: the base figures read from the         *)
(* statements.  prompt is what input() yields when both EBIT fields are    *)
(* missing: a number, or None when input() raises.                         *)
(***************************************************************************)
BaseFigures(income_statement, cashflow_statement, balance_statement, prompt) ==
    LET Fail(e) == [exc |-> e, ebit |-> Zero, tax_rate |-> Zero,
                    non_cash_charges |-> Zero, cwc |-> Zero, cap_ex |-> Zero]
    IN
    IF Len(income_statement) = 0 THEN Fail("IndexError")
    ELSE LET inc == income_statement[1] IN
    IF ~Truthy(inc, "operatingIncome") /\ ~Truthy(inc, "EBIT") /\ ~Has(inc, "date")
    THEN Fail("KeyError")
    ELSE IF ~Truthy(inc, "operatingIncome") /\ ~Truthy(inc, "EBIT") /\ IsNone(prompt)
    THEN Fail("EOFError")
    ELSE LET ebit == IF Truthy(inc, "operatingIncome") THEN float(inc["operatingIncome"])
                     ELSE IF Truthy(inc, "EBIT") THEN float(inc["EBIT"])
                     ELSE prompt IN
    IF ~Has(inc, "incomeTaxExpense") \/ ~Has(inc, "incomeBeforeTax") THEN Fail("KeyError")
    ELSE IF inc["incomeBeforeTax"] = 0 THEN Fail("ZeroDivisionError")
    ELSE IF Len(cashflow_statement) = 0 THEN Fail("IndexError")
    ELSE LET cf == cashflow_statement[1] IN
    IF ~Has(cf, "depreciationAndAmortization") THEN Fail("KeyError")
    ELSE IF Len(balance_statement) = 0 THEN Fail("IndexError")
    ELSE IF ~Has(balance_statement[1], "totalAssets")
            \/ ~Has(balance_statement[1], "totalNonCurrentAssets") THEN Fail("KeyError")
    ELSE IF Len(balance_statement) < 2 THEN Fail("IndexError")
    ELSE IF ~Has(balance_statement[2], "totalAssets")
            \/ ~Has(balance_statement[2], "totalNonCurrentAssets") THEN Fail("KeyError")
    ELSE IF ~Has(cf, "capitalExpenditure") THEN Fail("KeyError")
    ELSE [exc |-> "",
          ebit |-> ebit,
          tax_rate |-> RDiv(float(inc["incomeTaxExpense"]), float(inc["incomeBeforeTax"])),
          non_cash_charges |-> float(cf["depreciationAndAmortization"]),
          cwc |-> RSub(RSub(float(balance_statement[1]["totalAssets"]),
                            float(balance_statement[1]["totalNonCurrentAssets"])),
                       RSub(float(balance_statement[2]["totalAssets"]),
                            float(balance_statement[2]["totalNonCurrentAssets"]))),
          cap_ex |-> float(cf["capitalExpenditure"])]

(***************************************************************************)
(* enterprise_value as a whole, one operator per part of the function.     *)
(* stage names the part in which it ended: "base", "schedule", "forecast", *)
(* "terminal" (all four by an exception) or "return".                      *)
(***************************************************************************)
EvOut(stage, e, base, gr, cgr, fl, rows, v) ==
    [stage |-> stage, exc |-> e, base |-> base, growth_rates |-> gr,
     cap_ex_growth_rates |-> cgr, flows |-> fl, rows |-> rows, value |-> v]

\* lines 427-434
EvAfterForecast(base, sch, fc, tv) ==
    IF tv.exc # ""
    THEN EvOut("terminal", tv.exc, base, sch.growth_rates, sch.cap_ex_growth_rates,
               fc.flows, fc.rows, Zero)
    ELSE EvOut("return", "", base, sch.growth_rates, sch.cap_ex_growth_rates,
               fc.flows, fc.rows, tv.value)

\* lines 396-425
EvAfterSchedules(base, sch, fc, period, discount_rate, perpetual_growth_rate) ==
    IF fc.exc # ""
    THEN EvOut("forecast", fc.exc, base, sch.growth_rates, sch.cap_ex_growth_rates,
               fc.flows, fc.rows, Zero)
    ELSE EvAfterForecast(base, sch, fc,
                         Terminal(fc.flows, period, discount_rate, perpetual_growth_rate))

\* lines 379-395; the logged f-string of line 383 reads the statement date
EvAfterBase(base, sch, income0, period, discount_rate, perpetual_growth_rate) ==
    IF sch.exc # "" THEN EvOut("schedule", sch.exc, base, <<>>, <<>>, <<>>, <<>>, Zero)
    ELSE IF ~Has(income0, "date")
    THEN EvOut("forecast", "KeyError", base, sch.growth_rates, sch.cap_ex_growth_rates,
               <<>>, <<>>, Zero)
    ELSE EvAfterSchedules(base, sch,
                          Forecast(1, period, base.ebit, base.non_cash_charges, base.cwc,
                                   base.cap_ex, base.tax_rate, discount_rate,
                                   sch.growth_rates, sch.cap_ex_growth_rates, <<>>, <<>>),
                          period, discount_rate, perpetual_growth_rate)

\* lines 349-377
EvWithBase(base, income_statement, period, discount_rate, earnings_growth_rate, cap_ex_growth_rate, perpetual_growth_rate, variable_growth_rates) ==
    IF base.exc # "" THEN EvOut("base", base.exc, base, <<>>, <<>>, <<>>, <<>>, Zero)
    ELSE EvAfterBase(base,
                     BuildSchedules(income_statement[1], period, earnings_growth_rate,
                                    cap_ex_growth_rate, variable_growth_rates),
                     income_statement[1], period, discount_rate, perpetual_growth_rate)

enterprise_value(income_statement, cashflow_statement, balance_statement, period, discount_rate, earnings_growth_rate, cap_ex_growth_rate, perpetual_growth_rate, variable_growth_rates, prompt) ==
    EvWithBase(BaseFigures(income_statement, cashflow_statement, balance_statement, prompt),
               income_statement, period, discount_rate, earnings_growth_rate,
               cap_ex_growth_rate, perpetual_growth_rate, variable_growth_rates)

(***************************************************************************)
(* equity_value.  The enterprise-value statement is either the list format *)
(* [kind |-> "list", items |-> sequence of records], of which the first    *)
(* record is used, or the dict format [kind |-> "dict", rec |-> record].   *)
(***************************************************************************)
DebtField(kind) == IF kind = "list" THEN "addTotalDebt" ELSE "+ Total Debt"
CashField(kind) ==
    IF kind = "list" THEN "minusCashAndCashEquivalents" ELSE "- Cash & Cash Equivalents"
SharesField(kind) == IF kind = "list" THEN "numberOfShares" ELSE "Number of Shares"

\* the record the figures are read from: enterprise_value_statement[0] or the dict
EvData(enterprise_value_statement) ==
    IF enterprise_value_statement.kind = "list"
    THEN enterprise_value_statement.items[1]
    ELSE enterprise_value_statement.rec

\* a variant with the signs of debt and cash exchanged
EquityOfSignsSwapped(ev, debt, cash) == RSub(RAdd(ev, debt), cash)

\* equity_val = enterprise_value - debt + cash
EquityOf(ev, debt, cash) == RAdd(RSub(ev, debt), cash)

equity_value(ev, enterprise_value_statement) ==
    LET kind == enterprise_value_statement.kind
        Fail(e) == [exc |-> e, equity_val |-> None, share_price |-> None]
    IN
    IF kind = "list" /\ Len(enterprise_value_statement.items) = 0 THEN Fail("IndexError")
    ELSE LET ev_data == EvData(enterprise_value_statement) IN
    IF ~Has(ev_data, DebtField(kind)) \/ ~Has(ev_data, CashField(kind))
       \/ ~Has(ev_data, SharesField(kind))
    THEN Fail("KeyError")
    ELSE LET debt == float(ev_data[DebtField(kind)])
             cash == float(ev_data[CashField(kind)])
             shares == float(ev_data[SharesField(kind)])
             equity_val == EquityOf(ev, debt, cash)
         IN  IF shares[1] = 0 THEN Fail("ZeroDivisionError")
             ELSE [exc |-> "", equity_val |-> equity_val,
                   share_price |-> RDiv(equity_val, shares)]

(***************************************************************************)
(* DCF: enterprise_value, then equity_value, then the valuation record.    *)
(* Neither call is guarded: what they raise leaves DCF.                    *)
(***************************************************************************)
NoRecord == [date |-> <<0, 0, 0>>]

\* a variant that swallows the exception and returns a record of zeros
DCFSwallowsEquityError(eq) ==
    [exc |-> "", ret |-> [date |-> <<0, 0, 0>>, enterprise_value |-> Zero,
                          equity_value |-> Zero, share_price |-> Zero]]

\* what DCF does with an exception of equity_value: it is not caught
DCFOnEquityError(eq) == [exc |-> eq.exc, ret |-> NoRecord]

\* lines 97-111
DCFAfterEquity(enterprise_val, eq, income_statement) ==
    IF eq.exc # "" THEN DCFOnEquityError(eq)
    ELSE [exc |-> "",
          ret |-> [date |-> income_statement[1]["date"],
                   enterprise_value |-> enterprise_val.value,
                   equity_value |-> eq.equity_val,
                   share_price |-> eq.share_price]]

\* lines 85-97
DCFAfterEnterprise(enterprise_val, ev_statement, income_statement) ==
    IF enterprise_val.exc # "" THEN [exc |-> enterprise_val.exc, ret |-> NoRecord]
    ELSE DCFAfterEquity(enterprise_val, equity_value(enterprise_val.value, ev_statement),
                        income_statement)

DCF(ev_statement, income_statement, balance_statement, cashflow_statement, discount_rate, forecast, earnings_growth_rate, cap_ex_growth_rate, perpetual_growth_rate, variable_growth_rates, prompt) ==
    DCFAfterEnterprise(
        enterprise_value(income_statement, cashflow_statement, balance_statement,
                         forecast, discount_rate, earnings_growth_rate,
                         cap_ex_growth_rate, perpetual_growth_rate,
                         variable_growth_rates, prompt),
        ev_statement, income_statement)

(***************************************************************************)
(* historical_DCF: one DCF per window of the fetched statement lists.      *)
(***************************************************************************)
Min(a, b) == IF a < b THEN a ELSE b

\* a variant that hands each window its own period only
WindowOfOne(statement, interval) ==
    SubSeq(statement, interval + 1, Min(interval + 1, Len(statement)))

\* statement[interval : interval + 2], interval counted from 0
Window(statement, interval) ==
    SubSeq(statement, interval + 1, Min(interval + 2, Len(statement)))

\* intervals = years * 4 for "quarter", years otherwise
Intervals(years, interval) == IF interval = "quarter" THEN years * 4 ELSE years

\* the forecast parameters historical_DCF hands on unchanged to every window
WindowDCF(args, interval) ==
    IF interval + 1 > Len(args.enterprise_value_statement)
    THEN [exc |-> "IndexError", ret |-> NoRecord]
    ELSE DCF([kind |-> "dict", rec |-> args.enterprise_value_statement[interval + 1]],
             Window(args.income_statement, interval),
             Window(args.balance_statement, interval),
             Window(args.cashflow_statement, interval),
             args.discount_rate, args.forecast, args.earnings_growth_rate,
             args.cap_ex_growth_rate, args.perpetual_growth_rate,
             [kind |-> "None"], args.prompt)

\* dcfs[key] = value
\* a variant that keeps a single entry, the latest
StoreLatestOnly(map, key, value) == (key :> value)

Store(map, key, value) == (key :> value) @@ map

\* a variant whose handler catches IndexError only
TryWindowIndexErrorOnly(dcfs, dcf) ==
    IF dcf.exc = "" THEN [raised |-> FALSE, dcfs |-> Store(dcfs, dcf.ret.date, dcf.ret)]
    ELSE [raised |-> dcf.exc # "IndexError", dcfs |-> dcfs]

\* try: dcf = DCF(...)  except (Exception, IndexError): log  else: dcfs[date] = dcf
\* raised tells whether the exception leaves the loop
TryWindow(dcfs, dcf) ==
    IF dcf.exc # ""
    THEN [raised |-> FALSE, dcfs |-> dcfs]
    ELSE [raised |-> FALSE, dcfs |-> Store(dcfs, dcf.ret.date, dcf.ret)]

(***************************************************************************)
(* run_setup (src/main.py): the sensitivity sweep.  args is the argparse   *)
(* namespace, a function from option names to values.                      *)
(***************************************************************************)
\* vars(args)[variable] * (1 + (args.s * increment))
\* the truth value Python gives a string
StrTruthy(str) == str # ""

\* main.py lines 41-52: `args.v == 'eg' or 'earnings_growth_rate'` is the
\* comparison or else the string, whose truth value decides the branch
SelectVariable(v) ==
    IF v = "eg" \/ StrTruthy("earnings_growth_rate") THEN [exc |-> "", variable |-> "eg"]
    ELSE IF v = "cg" \/ StrTruthy("cap_ex_growth_rate") THEN [exc |-> "", variable |-> "cg"]
    ELSE IF v = "pg" \/ StrTruthy("perpetual_growth_rate") THEN [exc |-> "", variable |-> "pg"]
    ELSE IF v = "discount_rate" \/ StrTruthy("discount") THEN [exc |-> "", variable |-> "discount"]
    ELSE [exc |-> "ValueError", variable |-> ""]

\* main.py lines 38-54: the sensitivity mode, entered when args.s > 0
MainSelection(v_given, v) ==
    IF v_given THEN SelectVariable(v) ELSE [exc |-> "ValueError", variable |-> ""]

Perturbed(value, s, increment) == RMul(value, RAdd(One, RMul(s, float(increment))))

\* floor of a non-negative rational times k
FloorTimes(x, k) == (x[1] * k) \div x[2]

\* str(var)[0:4] for 0 <= var < 10 in positional notation: the text is
\* "d.d" when var has one decimal, and otherwise starts with "d.dd", the
\* digits of var cut (not rounded) after the second decimal.
FirstFour(var) ==
    IF (var[1] * 10) % var[2] = 0
    THEN <<"d.d", FloorTimes(var, 10)>>
    ELSE <<"d.dd", FloorTimes(var, 100)>>

\* '{}: {}'.format(args.v, str(var)[0:4])
StepLabel(v, var) == <<v, FirstFour(var)>>

\* the parameters of historical_DCF (dcf.py) and the positional arguments
\* run_setup calls it with (main.py line 141)
HistoricalDCFParams == 8
RunSetupCallArgs == 9
\* a call with more positional arguments than parameters raises TypeError
CallBinds(nargs, nparams) == nargs <= nparams

(***************************************************************************)
(* calculate_irr.  One pass of the Newton-Raphson loop of lines 812-834 is *)
(* IrrPass: it either breaks out of the loop or moves the rate.            *)
(***************************************************************************)
max_iterations == 100
initial_guess == R(1, 10)

RMax(x, y) == IF RLe(x, y) THEN y ELSE x
RMin(x, y) == IF RLe(x, y) THEN x ELSE y
\* abs(x) < 1e-6 and abs(x) < 1e-12
BelowTolerance(x) == Abs(x[1]) <= (x[2] - 1) \div 1000000
BelowDerivativeFloor(x) == Abs(x[1]) <= ((x[2] - 1) \div 1000000) \div 1000000

\* line 797: [-initial_investment] + cash_flows[:-1] + [cash_flows[-1] + terminal_value]
CombinedCashFlows(initial_investment, cash_flows, terminal_value) ==
    <<RNeg(initial_investment)>>
        \o SubSeq(cash_flows, 1, Len(cash_flows) - 1)
        \o <<RAdd(cash_flows[Len(cash_flows)], terminal_value)>>

\* lines 799-801: sum(cf / (1 + rate) ** i) over the first n flows, i from 0
RECURSIVE npv(_, _, _)
npv(flows, r, n) ==
    IF n = 0 THEN Zero
    ELSE RAdd(npv(flows, r, n - 1), RDiv(flows[n], RPow(RAdd(One, r), n - 1)))

\* lines 803-805: sum(-i * cf / (1 + rate) ** (i + 1))
RECURSIVE npv_derivative(_, _, _)
npv_derivative(flows, r, n) ==
    IF n = 0 THEN Zero
    ELSE RAdd(npv_derivative(flows, r, n - 1),
              RDiv(RMul(float(-(n - 1)), flows[n]), RPow(RAdd(One, r), n)))

\* a variant that lets the candidate rate go anywhere
ClampNone(new_rate) == new_rate

\* line 826: max(-0.99, min(new_rate, 5.0))
Clamp(new_rate) == RMax(R(-99, 100), RMin(new_rate, float(5)))

IrrBreak(r) == [break |-> TRUE, rate |-> r]
\* lines 828-831
IrrMove(r, new_rate) ==
    IF BelowTolerance(RSub(new_rate, r)) THEN IrrBreak(r)
    ELSE [break |-> FALSE, rate |-> new_rate]
\* lines 817-826
IrrNewton(r, npv_value, npv_deriv) ==
    IF BelowTolerance(npv_value) THEN IrrBreak(r)
    ELSE IF BelowDerivativeFloor(npv_deriv) THEN IrrBreak(r)
    ELSE IrrMove(r, Clamp(RSub(r, RDiv(npv_value, npv_deriv))))
\* lines 813-834; a division by 1 + rate = 0 raises ZeroDivisionError, which
\* the except clause turns into a break
IrrPass(flows, r) ==
    IF RAdd(One, r)[1] = 0 THEN IrrBreak(r)
    ELSE IrrNewton(r, npv(flows, r, Len(flows)), npv_derivative(flows, r, Len(flows)))

\* a variant that returns whatever rate the loop ended with
IrrResultUnchecked(r) == r

\* a variant that accepts rates within [0%, 100%] only
IrrResultNarrow(r) == IF RLe(Zero, r) /\ RLe(r, One) THEN r ELSE Zero

\* line 837: rate if -0.5 <= rate <= 2.0 else 0
IrrResult(r) == IF RLe(R(-1, 2), r) /\ RLe(r, float(2)) THEN r ELSE Zero

(***************************************************************************)
(* get_discount_rate.  industry is a string, "" standing for None.         *)
(***************************************************************************)
risk_free_rate == R(1, 25)
market_premium == R(3, 50)
tax_rate_floor == R(3, 20)
tax_rate_ceiling == R(7, 20)
beta_defaults == [default |-> One]

\* lines 219-228
BetaOf(equity_beta, industry) ==
    IF IsNone(equity_beta)
    THEN IF industry # ""
         THEN IF industry \in DOMAIN beta_defaults THEN beta_defaults[industry]
              ELSE IF "default" \in DOMAIN beta_defaults THEN beta_defaults["default"]
              ELSE One
         ELSE One
    ELSE equity_beta

\* line 232
CostOfEquity(beta) == RAdd(risk_free_rate, RMul(beta, market_premium))

\* lines 243-244
CostOfDebt(debt_to_equity) ==
    RAdd(risk_free_rate, RMin(R(1, 20), RMul(debt_to_equity, R(1, 50))))

\* a variant that uses the tax rate as supplied
BoundedTaxRateAsGiven(tax_rate) == tax_rate

\* lines 252-254
BoundedTaxRate(tax_rate) == RMax(tax_rate_floor, RMin(tax_rate, tax_rate_ceiling))

\* lines 247-256
Wacc(cost_of_equity, debt_to_equity, total_value, tax_rate) ==
    IF total_value[1] = 0 THEN [exc |-> "ZeroDivisionError", value |-> Zero]
    ELSE [exc |-> "",
          value |-> RAdd(RMul(RDiv(One, total_value), cost_of_equity),
                         RMul(RMul(RDiv(debt_to_equity, total_value),
                                   CostOfDebt(debt_to_equity)),
                              RSub(One, BoundedTaxRate(tax_rate))))]

get_discount_rate(equity_beta, debt_to_equity, tax_rate, industry) ==
    IF IsNone(debt_to_equity) \/ IsNone(tax_rate)
    THEN [exc |-> "", value |-> CostOfEquity(BetaOf(equity_beta, industry))]
    ELSE Wacc(CostOfEquity(BetaOf(equity_beta, industry)), debt_to_equity,
              RAdd(One, debt_to_equity), tax_rate)

(***************************************************************************)
(* _create_variable_growth_schedule.  trends is a record; i is the loop    *)
(* index of line 850, from 0.                                              *)
(***************************************************************************)
terminal_transition_rate == R(1, 40)

\* a variant that holds the long-term rate to the end of the horizon
BlendedGrowthNoTransition(i, forecast_years, recent_growth, long_term_growth) ==
    IF i < 3
    THEN RAdd(RMul(recent_growth, R(3 - i, 3)),
              RMul(long_term_growth, RSub(One, R(3 - i, 3))))
    ELSE long_term_growth

\* lines 851-859
BlendedGrowth(i, forecast_years, recent_growth, long_term_growth) ==
    IF i < 3
    THEN RAdd(RMul(recent_growth, R(3 - i, 3)),
              RMul(long_term_growth, RSub(One, R(3 - i, 3))))
    ELSE IF i < forecast_years - 2
    THEN long_term_growth
    ELSE RAdd(RMul(long_term_growth, R(forecast_years - 1 - i, 2)),
              RMul(terminal_transition_rate, RSub(One, R(forecast_years - 1 - i, 2))))

\* trends.get(key, 1.0)
FactorOf(trends, key) == IF Has(trends, key) THEN trends[key] ELSE One

\* a variant that applies the floor and forgets the cap
BoundGrowthFloorOnly(growth) == RMax(growth, R(-1, 10))

\* lines 866-867: max(growth, -0.1) then min(growth, 0.5)
BoundGrowth(growth) == RMin(RMax(growth, R(-1, 10)), R(1, 2))

\* lines 851-869 for one year
YearGrowth(trends, i, forecast_years) ==
    BoundGrowth(RMul(RMul(BlendedGrowth(i, forecast_years,
                                        trends["recent_revenue_growth"],
                                        trends["revenue_cagr"]),
                          FactorOf(trends, "maturity_factor")),
                     FactorOf(trends, "debt_constraint_factor")))

create_variable_growth_schedule(trends, forecast_years) ==
    IF ~Has(trends, "recent_revenue_growth") \/ ~Has(trends, "revenue_cagr")
    THEN [exc |-> "KeyError", growth_schedule |-> <<>>]
    ELSE [exc |-> "",
          growth_schedule |-> [k \in 1..forecast_years |->
                                  YearGrowth(trends, k - 1, forecast_years)]]

(***************************************************************************)
(* analyze_growth_trends.  Amounts are in millions of dollars, so that the *)
(* size thresholds of lines 610 and 612 are 100000 and 10000 and the one   *)
(* dollar of line 630 is Dollar.  df is the list of yearly rows, sorted by *)
(* year; every row holds every metric.                                     *)
(***************************************************************************)
Dollar == R(1, 1000000)
RAbs(x) == <<Abs(x[1]), x[2]>>
\* the truth value Python gives a number
NumTruthy(x) == x[1] # 0

\* df.sort_values("year")
SortByYear(metrics) ==
    CHOOSE df \in [1..Len(metrics) -> {metrics[k] : k \in 1..Len(metrics)}] :
        /\ \A k \in 1..Len(metrics) : \E j \in 1..Len(metrics) : df[j] = metrics[k]
        /\ \A j \in 1..(Len(metrics) - 1) : df[j].year <= df[j + 1].year

\* x ** (1 / k) for x >= 0 whose root is a fraction; k = 1 leaves x as it is
IntRoot(n, k) == CHOOSE r \in 0..n : r ^ k = n
RRoot(x, k) == IF k = 1 THEN x ELSE <<IntRoot(x[1], k), IntRoot(x[2], k)>>

\* a variant that forgets the root
CagrTotalGrowth(first, last, years) == RSub(RDiv(last, first), One)

\* (last / first) ** (1 / (years - 1)) - 1
Cagr(first, last, years) == RSub(RRoot(RDiv(last, first), years - 1), One)

\* lines 467-497: one metric's rate over the whole history, or else the
\* rate given as `otherwise`
MetricCagr(df, metric, otherwise) ==
    IF /\ NumTruthy(df[1][metric])
       /\ NumTruthy(df[Len(df)][metric])
       /\ RLt(Zero, df[1][metric])
    THEN Cagr(df[1][metric], df[Len(df)][metric], Len(df))
    ELSE otherwise

RevenueCagr(df) == MetricCagr(df, "revenue", R(1, 20))
EbitdaCagr(df) == MetricCagr(df, "ebitda", RevenueCagr(df))
FcfeCagr(df) == MetricCagr(df, "fcfe", EbitdaCagr(df))

\* _calculate_period_growth_rates over the first n rows of df
RECURSIVE PeriodGrowthRates(_, _, _)
PeriodGrowthRates(df, metric, n) ==
    IF n <= 1 THEN <<>>
    ELSE PeriodGrowthRates(df, metric, n - 1)
         \o (IF NumTruthy(df[n - 1][metric]) /\ NumTruthy(df[n][metric])
             THEN <<RDiv(RSub(df[n][metric], df[n - 1][metric]), RAbs(df[n - 1][metric]))>>
             ELSE <<>>)

\* np.mean
Mean(s) == RDiv(RSum(s), float(Len(s)))
\* df.tail(k)
LastRows(df, k) == SubSeq(df, Len(df) - k + 1, Len(df))

\* lines 500-522
RecentGrowth(df, metric, cagr) ==
    IF Len(df) >= 3 /\ Len(PeriodGrowthRates(LastRows(df, 3), metric, 3)) > 0
    THEN Mean(PeriodGrowthRates(LastRows(df, 3), metric, 3))
    ELSE cagr

\* lines 525-543: the figures of the latest year
BaseFiguresOf(latest) ==
    [base_year |-> float(latest.year), base_revenue |-> latest.revenue,
     base_ebitda |-> latest.ebitda, base_fcfe |-> latest.fcfe,
     base_shares |-> latest.shares_outstanding, base_debt |-> latest.debt]

\* lines 457-543: the trends before the business context adjustments (the
\* volatility figures, which nothing reads, are left out)
RawTrends(df) ==
    [revenue_cagr |-> RevenueCagr(df), ebitda_cagr |-> EbitdaCagr(df),
     fcfe_cagr |-> FcfeCagr(df),
     recent_revenue_growth |-> RecentGrowth(df, "revenue", RevenueCagr(df)),
     recent_ebitda_growth |-> RecentGrowth(df, "ebitda", EbitdaCagr(df)),
     recent_fcfe_growth |-> RecentGrowth(df, "fcfe", FcfeCagr(df))]
    @@ BaseFiguresOf(df[Len(df)])

\* _create_fallback_trends
create_fallback_trends(latest_metrics) ==
    [revenue_cagr |-> R(1, 20), ebitda_cagr |-> R(1, 20), fcfe_cagr |-> R(1, 20),
     recent_revenue_growth |-> R(1, 20), recent_ebitda_growth |-> R(1, 20),
     recent_fcfe_growth |-> R(1, 20)]
    @@ BaseFiguresOf(latest_metrics)

\* lines 609-615
MaturityFactor(latest) ==
    IF RLt(float(100000), latest.revenue) THEN R(7, 10)
    ELSE IF RLt(float(10000), latest.revenue) THEN R(17, 20)
    ELSE One

\* max(x, 1): x when it is at least one dollar (x[2] <= 1000000 * x[1])
AtLeastOneDollar(x) ==
    IF x[1] > 0 /\ (x[2] + 999999) \div 1000000 <= x[1] THEN x ELSE Dollar

\* lines 630-636
DebtConstraintFactor(latest) ==
    IF RLt(float(4), RDiv(latest.debt, AtLeastOneDollar(latest.ebitda))) THEN R(4, 5)
    ELSE IF RLt(float(2), RDiv(latest.debt, AtLeastOneDollar(latest.ebitda))) THEN R(9, 10)
    ELSE One

GrowthKeys ==
    {"revenue_cagr", "ebitda_cagr", "fcfe_cagr", "recent_revenue_growth",
     "recent_ebitda_growth", "recent_fcfe_growth"}

\* _apply_business_context_adjustments: lines 618-627 multiply the six
\* growth figures by the maturity factor
apply_business_context_adjustments(trends, latest) ==
    [maturity_factor |-> MaturityFactor(latest),
     debt_constraint_factor |-> DebtConstraintFactor(latest)]
    @@ [k \in DOMAIN trends |->
           IF k \in GrowthKeys THEN RMul(trends[k], MaturityFactor(latest))
           ELSE trends[k]]

\* lines 458-561, the rows sorted
AnalyzeSorted(df) ==
    IF Len(df) < 2
    THEN [exc |-> "", trends |-> create_fallback_trends(df[Len(df)])]
    ELSE [exc |-> "",
          trends |-> apply_business_context_adjustments(RawTrends(df), df[Len(df)])]

NoTrends == [k \in {} |-> Zero]

analyze_growth_trends(historical_data) ==
    IF ~Has(historical_data, "yearly_metrics") \/ Len(historical_data.yearly_metrics) = 0
    THEN [exc |-> "ValueError", trends |-> NoTrends]
    ELSE AnalyzeSorted(SortByYear(historical_data.yearly_metrics))

(***************************************************************************)
(* enhanced_DCF_with_trends.  args are the caller's arguments, env what    *)
(* the statement source answers: the historical data and the statements,   *)
(* or the exception a fetch raises.  Every stage hands on an outcome whose *)
(* exc field names the exception raised inside the try block of line 665.  *)
(***************************************************************************)
\* calculate_irr as one call: the loop of lines 812-834 run to its end
RECURSIVE IrrRun(_, _, _)
IrrRun(flows, r, passes) ==
    IF passes >= max_iterations THEN r
    ELSE IF IrrPass(flows, r).break THEN IrrPass(flows, r).rate
    ELSE IrrRun(flows, IrrPass(flows, r).rate, passes + 1)

calculate_irr(initial_investment, cash_flows, terminal_value) ==
    IF RLe(initial_investment, Zero) THEN [exc |-> "", value |-> Zero]
    ELSE IF Len(cash_flows) = 0 THEN [exc |-> "IndexError", value |-> Zero]
    ELSE [exc |-> "",
          value |-> IrrResult(IrrRun(CombinedCashFlows(initial_investment, cash_flows,
                                                       terminal_value),
                                     initial_guess, 0))]

\* lines 727-730: base_fcf * (1 + growth_rate) ** (i + 1)
ProjectedCashFlows(base_fcf, rates) ==
    [k \in 1..Len(rates) |-> RMul(base_fcf, RPow(RAdd(One, rates[k]), k))]

\* lines 733-734
IrrTerminalValue(flows, discount_rate, perpetual_growth_rate) ==
    RDiv(RMul(flows[Len(flows)], RAdd(One, perpetual_growth_rate)),
         RSub(discount_rate, perpetual_growth_rate))

\* lines 711-745, the IRR (the NPV figure, which nothing reads, is left
\* out).  A ZeroDivisionError is caught at line 742 and gives the discount
\* rate; an IndexError is not caught there.
ReturnMetrics(dcf_result, trends, discount_rate, perpetual_growth_rate, rates) ==
    IF ~(RLt(Zero, dcf_result.share_price) /\ RLt(Zero, dcf_result.enterprise_value))
    THEN [exc |-> "", irr |-> Zero]
    ELSE IF Len(rates) = 0 THEN [exc |-> "IndexError", irr |-> Zero]
    ELSE IF discount_rate = perpetual_growth_rate \/ RAdd(One, discount_rate) = Zero
    THEN [exc |-> "", irr |-> discount_rate]
    ELSE [exc |-> "",
          irr |-> calculate_irr(
                      RMul(dcf_result.share_price, trends.base_shares),
                      ProjectedCashFlows(RMul(dcf_result.enterprise_value, discount_rate),
                                         rates),
                      IrrTerminalValue(
                          ProjectedCashFlows(RMul(dcf_result.enterprise_value,
                                                  discount_rate), rates),
                          discount_rate, perpetual_growth_rate)).value]

\* lines 674-682: the discount rate given, or else the estimate
EnhDiscountRate(trends, discount_rate) ==
    IF IsNone(discount_rate)
    THEN get_discount_rate(None,
                           RDiv(trends.base_debt,
                                AtLeastOneDollar(RMul(trends.base_ebitda, float(15)))),
                           R(21, 100), "default")
    ELSE [exc |-> "", value |-> discount_rate]

\* list[:2]
FirstTwo(list) == SubSeq(list, 1, Min(2, Len(list)))

EnhFail(e) ==
    [exc |-> e, trends |-> NoTrends, discount_rate |-> None,
     variable_growth_rates |-> <<>>, dcf |-> NoRecord, irr |-> Zero]

\* lines 747-779
EnhAfterMetrics(trends, discount_rate, rates, dcf_result, metrics) ==
    IF metrics.exc # "" THEN EnhFail(metrics.exc)
    ELSE [exc |-> "", trends |-> trends, discount_rate |-> discount_rate,
          variable_growth_rates |-> rates, dcf |-> dcf_result, irr |-> metrics.irr]

\* lines 711-745
EnhAfterDCF(trends, discount_rate, rates, dcf_out, perpetual_growth_rate) ==
    IF dcf_out.exc # "" THEN EnhFail(dcf_out.exc)
    ELSE EnhAfterMetrics(trends, discount_rate, rates, dcf_out.ret,
                         ReturnMetrics(dcf_out.ret, trends, discount_rate,
                                       perpetual_growth_rate, rates))

\* line 707: the rate handed to DCF is the caller's
TerminalGrowthUsed(perpetual_growth_rate) == perpetual_growth_rate

\* lines 689-709
EnhAfterSchedule(trends, discount_rate, sched, args, env) ==
    IF sched.exc # "" THEN EnhFail(sched.exc)
    ELSE IF env.statements.exc # "" THEN EnhFail(env.statements.exc)
    ELSE EnhAfterDCF(trends, discount_rate, sched.growth_schedule,
                     DCF([kind |-> "list", items |-> env.statements.enterpriseValues],
                         FirstTwo(env.statements.income),
                         FirstTwo(env.statements.balance),
                         FirstTwo(env.statements.cashflow),
                         discount_rate, args.forecast_years, trends.revenue_cagr,
                         RMul(trends.revenue_cagr, R(4, 5)),
                         TerminalGrowthUsed(args.perpetual_growth_rate),
                         [kind |-> "list", items |-> sched.growth_schedule],
                         env.prompt),
                     args.perpetual_growth_rate)

\* lines 674-685
EnhAfterDiscount(trends, rate, args, env) ==
    IF rate.exc # "" THEN EnhFail(rate.exc)
    ELSE EnhAfterSchedule(trends, rate.value,
                          create_variable_growth_schedule(trends, args.forecast_years),
                          args, env)

\* lines 671-682
EnhAfterTrends(analysis, args, env) ==
    IF analysis.exc # "" THEN EnhFail(analysis.exc)
    ELSE EnhAfterDiscount(analysis.trends,
                          EnhDiscountRate(analysis.trends, args.discount_rate), args, env)

\* lines 665-779: the try block
EnhBody(args, env) ==
    IF env.historical.exc # "" THEN EnhFail(env.historical.exc)
    ELSE IF Has(env.historical.data, "error") THEN EnhFail("Exception")
    ELSE EnhAfterTrends(analyze_growth_trends(env.historical.data), args, env)

\* a variant whose handler lets the exception through
EnhReturnPropagates(body, args) ==
    IF body.exc = ""
    THEN [exc |-> "", value |-> [ticker |-> args.ticker, dcf_valuation |-> body.dcf]]
    ELSE [exc |-> body.exc, value |-> [ticker |-> args.ticker]]

\* lines 747-788: the record returned, by the try block or by the handler
\* of line 781
EnhReturn(body, args) ==
    IF body.exc = ""
    THEN [exc |-> "",
          value |-> [ticker |-> args.ticker, forecast_years |-> args.forecast_years,
                     trend_analysis |-> body.trends,
                     variable_growth_rates |-> body.variable_growth_rates,
                     dcf_valuation |-> [irr |-> body.irr] @@ body.dcf,
                     discount_rate |-> body.discount_rate,
                     terminal_growth_rate |-> args.perpetual_growth_rate]]
    ELSE [exc |-> "", value |-> [ticker |-> args.ticker, error |-> body.exc]]

enhanced_DCF_with_trends(args, env) == EnhReturn(EnhBody(args, env), args)

(***************************************************************************)
(* Inputs.  Each statement list is most recent first.                      *)
(***************************************************************************)
BaseDate == <<2020, 9, 30>>
Income0 == [date |-> BaseDate, operatingIncome |-> 8, EBIT |-> 6,
            incomeTaxExpense |-> 1, incomeBeforeTax |-> 4]
Cashflow0 == [depreciationAndAmortization |-> 2, capitalExpenditure |-> -4]
Balance0 == [totalAssets |-> 10, totalNonCurrentAssets |-> 6]
Balance1 == [totalAssets |-> 7, totalNonCurrentAssets |-> 5]

IncomeCases ==
    {<<Income0>>, <<>>,
     <<[Income0 EXCEPT !.operatingIncome = 0]>>,
     <<[Income0 EXCEPT !.incomeBeforeTax = 0]>>,
     <<[Income0 EXCEPT !.operatingIncome = 0, !.EBIT = 0]>>,
     <<Without(Without(Income0, "operatingIncome"), "EBIT")>>,
     <<Without(Without(Without(Income0, "operatingIncome"), "EBIT"), "date")>>}
    \cup {<<Without(Income0, f)>> : f \in DOMAIN Income0}
CashflowCases ==
    {<<Cashflow0>>, <<>>} \cup {<<Without(Cashflow0, f)>> : f \in DOMAIN Cashflow0}
BalanceCases ==
    {<<Balance0, Balance1>>, <<Balance0>>, <<>>}
    \cup {<<Without(Balance0, f), Balance1>> : f \in DOMAIN Balance0}
    \cup {<<Balance0, Without(Balance1, f)>> : f \in DOMAIN Balance1}

StatementCases ==
    {[income |-> i, cashflow |-> <<Cashflow0>>, balance |-> <<Balance0, Balance1>>,
      prompt |-> p] : i \in IncomeCases, p \in {None, float(5)}}
    \cup {[income |-> <<Income0>>, cashflow |-> c, balance |-> <<Balance0, Balance1>>,
           prompt |-> None] : c \in CashflowCases}
    \cup {[income |-> <<Income0>>, cashflow |-> <<Cashflow0>>, balance |-> b,
           prompt |-> None] : b \in BalanceCases}

DiscountRates == {R(1, 2), R(1, 1), R(-1, 1)}
PerpetualRates == {R(0, 1), R(1, 2), R(1, 1)}
\* pairs <<earnings_growth_rate, cap_ex_growth_rate>>
GrowthPairs == {<<R(1, 2), R(1, 4)>>, <<None, None>>}
ListRates == {R(1, 2), R(-1, 2)}
DictYears == {2020, 2021, 2022, 2024}
DictRate(year) == R(1, year - 2018)

RECURSIVE SeqsUpTo(_, _)
SeqsUpTo(S, n) ==
    IF n = 0 THEN {<<>>}
    ELSE LET shorter == SeqsUpTo(S, n - 1)
         IN  shorter \cup {Append(q, x) : q \in {r \in shorter : Len(r) = n - 1}, x \in S}

Overrides ==
    {[kind |-> "None"], [kind |-> "other"]}
    \cup {[kind |-> "dict", map |-> [y \in Y |-> DictRate(y)]] : Y \in SUBSET DictYears}
    \cup {[kind |-> "list", items |-> l] : l \in SeqsUpTo(ListRates, MaxListLen)}

\* enterprise-value statements in both formats
EvRecord(kind, debt, cash, shares) ==
    (DebtField(kind) :> debt) @@ (CashField(kind) :> cash) @@ (SharesField(kind) :> shares)
EvFields(kind) == {DebtField(kind), CashField(kind), SharesField(kind)}
EvFigures == {<<5, 3, 4>>, <<0, 0, 1>>, <<5, 3, 0>>, <<2, 7, -2>>}
EvRecords(kind) ==
    {EvRecord(kind, f[1], f[2], f[3]) : f \in EvFigures}
    \cup {Without(EvRecord(kind, 5, 3, 4), f) : f \in EvFields(kind)}
EvStatementCases ==
    {[kind |-> "dict", rec |-> r] : r \in EvRecords("dict")}
    \cup {[kind |-> "list", items |-> <<r>>] : r \in EvRecords("list")}
    \cup {[kind |-> "list", items |-> <<r, EvRecord("list", 1, 1, 1)>>] :
              r \in EvRecords("list")}
    \cup {[kind |-> "list", items |-> <<>>]}
EnterpriseValues == {R(21, 2), R(-3, 1), R(0, 1), R(7, 3)}

\* historical series: period p (1 = most recent) of a series
MaxPeriods == 5
MaxYears == 5
MaxQuarterYears == 1

PeriodDate(p) == <<2021 - p, 9, 30>>
PeriodIncome(p) == [date |-> PeriodDate(p), operatingIncome |-> 8 + p,
                    incomeTaxExpense |-> 1, incomeBeforeTax |-> 4]
PeriodCashflow(p) == [depreciationAndAmortization |-> 2, capitalExpenditure |-> -4]
PeriodBalance(p) == [totalAssets |-> 10 + p, totalNonCurrentAssets |-> 6]
PeriodEv(p) == EvRecord("dict", 5, 3, 4)

\* a fault is <<period, statement, kind, field>>; period 0 is no fault
IncomeRequired == {"date", "incomeTaxExpense", "incomeBeforeTax"}
CashflowRequired == {"depreciationAndAmortization", "capitalExpenditure"}
BalanceRequired == {"totalAssets", "totalNonCurrentAssets"}
FaultKinds ==
    {<<"income", "missing", f>> : f \in IncomeRequired \cup {"operatingIncome"}}
    \cup {<<"cashflow", "missing", f>> : f \in CashflowRequired}
    \cup {<<"balance", "missing", f>> : f \in BalanceRequired}
    \cup {<<"ev", "missing", f>> : f \in EvFields("dict")}
    \cup {<<"income", "zero", "incomeBeforeTax">>, <<"ev", "zero", SharesField("dict")>>}
Faulty(rec, p, statement, fault) ==
    IF fault[1] = p /\ fault[2] = statement
    THEN IF fault[3] = "missing" THEN Without(rec, fault[4])
         ELSE [rec EXCEPT ![fault[4]] = 0]
    ELSE rec
Series(n, fault) ==
    [income_statement |-> [p \in 1..n |-> Faulty(PeriodIncome(p), p, "income", fault)],
     cashflow_statement |-> [p \in 1..n |-> Faulty(PeriodCashflow(p), p, "cashflow", fault)],
     balance_statement |-> [p \in 1..n |-> Faulty(PeriodBalance(p), p, "balance", fault)],
     enterprise_value_statement |-> [p \in 1..n |-> Faulty(PeriodEv(p), p, "ev", fault)]]
SeriesCases ==
    {Series(n, <<0, "", "", "">>) : n \in 0..MaxPeriods}
    \cup {Series(n, <<p, k[1], k[2], k[3]>>) :
              n \in 1..MaxPeriods, p \in 1..MaxPeriods, k \in FaultKinds}

\* sweeps
MaxSteps == 3
SweepValues == {R(1, 20), R(1, 10), R(1, 2)}
SweepSteps == {R(1, 100), R(1, 10), R(1, 1)}
\* <<args.v, variable>>: main.py hands run_setup one of the four short names
SweepNames == {<<"eg", "eg">>, <<"earnings_growth_rate", "eg">>, <<"cg", "cg">>,
               <<"pg", "pg">>, <<"discount", "discount">>}
Namespace(v, s, steps, d, eg, cg, pg) ==
    [t |-> "AAPL", y |-> 1, p |-> 1, i |-> "annual", apikey |-> "", v |-> v, s |-> s,
     steps |-> steps, d |-> d, eg |-> eg, cg |-> cg, pg |-> pg]

\* main: the names --v may carry
VariableNames == {"eg", "earnings_growth_rate", "cg", "cap_ex_growth_rate", "pg",
                  "perpetual_growth_rate", "discount", "discount_rate", "revenue", ""}

\* calculate_irr: <<initial_investment, cash_flows, terminal_value>> in
\* whole numbers.  The cases are those on which exact arithmetic stays
\* small: a root at the first guess, a flat NPV, runs that stop at either
\* clamp, a run that reaches a root inside the range, a run that alternates
\* between the two clamps until the loop is exhausted, and calls that end
\* before the loop.
IrrFigures ==
    {<<10, <<11>>, 0>>, <<10, <<1, 11>>, 0>>, <<1, <<0>>, 0>>,
     <<4, <<-1>>, 0>>, <<5, <<-1>>, 0>>, <<4, <<1>>, -2>>, <<4, <<-11>>, 0>>,
     <<5, <<-11, 0>>, 0>>, <<3, <<11, -6>>, 0>>,
     <<3000, <<1401, -7>>, 0>>, <<3000, <<1401, 3>>, -10>>,
     <<1, <<>>, 0>>}
    \cup {<<i, c, 0>> : i \in {0, -1}, c \in {<<>>, <<1>>, <<1, 2>>}}
IrrCase(f, discount_rate) ==
    [initial_investment |-> float(f[1]),
     cash_flows |-> [k \in 1..Len(f[2]) |-> float(f[2][k])],
     terminal_value |-> float(f[3]),
     \* the discount rate of the valuation the call is made for (lines 721,
     \* 735); it is not an argument of calculate_irr
     discount_rate |-> discount_rate]
\* streams of n equal annual cash flows c plus a terminal value, each priced
\* at a known rate: <<initial_investment, c, n, terminal_value>>
AnnuityStreams ==
    {<<float(10), One, 2, float(10)>>,           \* priced at 10%
     <<R(1, 100), R(11, 500), 1, Zero>>,          \* priced at 120%
     <<R(1, 10000000), R(3, 10000000), 1, Zero>>, \* priced at 200%
     <<float(3), float(11), 2, float(-17)>>}      \* priced at 200% (and at -1/3)
AnnuityCase(a, discount_rate) ==
    [initial_investment |-> a[1],
     cash_flows |-> [k \in 1..a[3] |-> a[2]],
     terminal_value |-> a[4],
     discount_rate |-> discount_rate]
IrrCases ==
    {IrrCase(f, d) : f \in IrrFigures, d \in {R(1, 10), R(1, 20)}}
    \cup {AnnuityCase(a, R(1, 10)) : a \in AnnuityStreams}

\* get_discount_rate
Betas == {None, R(1, 2), One, R(3, 2)}
DebtToEquities == {None, Zero, R(1, 2), One, R(5, 2), float(3), float(-1)}
TaxRates == {None, Zero, R(1, 10), R(1, 4), R(7, 20), R(1, 2)}
Industries == {"", "technology", "default"}

\* _create_variable_growth_schedule
MaxForecastYears == 6
RecentGrowths == {R(-1, 2), Zero, R(1, 10), One}
LongTermGrowths == {R(-1, 5), R(1, 20), R(3, 5)}
TrendFactors ==
    {[k \in {} |-> One],
     [maturity_factor |-> R(7, 10), debt_constraint_factor |-> R(4, 5)],
     [maturity_factor |-> R(17, 20), debt_constraint_factor |-> R(9, 10)],
     [maturity_factor |-> One, debt_constraint_factor |-> One],
     [maturity_factor |-> R(7, 10)]}
TrendProfiles ==
    {[recent_revenue_growth |-> r, revenue_cagr |-> l] @@ f :
         r \in RecentGrowths, l \in LongTermGrowths, f \in TrendFactors}
    \cup {[revenue_cagr |-> R(1, 20)], [recent_revenue_growth |-> R(1, 20)]}

\* analyze_growth_trends: yearly rows in millions of dollars,
\* <<year, revenue, ebitda, fcfe, debt>>.  The histories are those whose
\* rates are fractions: a single year; two and three years of growth; a
\* metric that starts at zero or below; a metric that ends at zero; a
\* large and an established company; rows out of order; earnings at or
\* below zero under debt; four years of decline.
MetricsRow(f) ==
    [year |-> f[1], revenue |-> float(f[2]), ebitda |-> float(f[3]),
     fcfe |-> float(f[4]), debt |-> float(f[5]), shares_outstanding |-> Zero]
HistoryFigures ==
    {<<>>,
     <<<<2020, 100, 20, 10, 0>>>>,
     <<<<2019, 100, 20, 10, 0>>, <<2020, 150, 30, 5, 0>>>>,
     <<<<2018, 100, 16, 0, 0>>, <<2019, 150, 20, 5, 0>>, <<2020, 225, 25, 10, 60>>>>,
     <<<<2019, 0, -10, 4, 0>>, <<2020, 100, 20, 1, 0>>>>,
     <<<<2019, 100, 20, 10, 0>>, <<2020, 0, 0, 15, 0>>>>,
     <<<<2018, 240100, 24010, 2401, 0>>, <<2019, 289100, 28910, 2891, 0>>,
       <<2020, 348100, 34810, 3481, 0>>>>,
     <<<<2019, 28900, 2890, 289, 0>>, <<2020, 32900, 3290, 329, 16450>>>>,
     <<<<2020, 225, 25, 10, 60>>, <<2018, 100, 16, 0, 0>>, <<2019, 150, 20, 5, 0>>>>,
     <<<<2019, 100, 5, 1, 0>>, <<2020, 100, -5, 1, 1000>>>>,
     <<<<2017, 800, 0, 8, 0>>, <<2018, 400, 0, 4, 0>>, <<2019, 200, 0, 2, 0>>,
       <<2020, 100, 0, 1, 0>>>>}
Histories ==
    {[yearly_metrics |-> [k \in 1..Len(h) |-> MetricsRow(h[k])]] : h \in HistoryFigures}
    \cup {[k \in {} |-> <<>>]}

\* enhanced_DCF_with_trends: what the statement source answers
MaxEnhancedYears == 1
EnhHistoricalCases ==
    {[exc |-> "ConnectionError", data |-> [k \in {} |-> <<>>]],
     [exc |-> "", data |-> [error |-> "no data"]]}
    \cup {[exc |-> "", data |-> h] : h \in Histories}
EnhStatementsOf(income, enterpriseValues) ==
    [exc |-> "", income |-> income, balance |-> <<Balance0, Balance1>>,
     cashflow |-> <<Cashflow0>>, enterpriseValues |-> enterpriseValues]
EnhStatementCases ==
    {[exc |-> "TypeError", income |-> <<>>, balance |-> <<>>, cashflow |-> <<>>,
      enterpriseValues |-> <<>>],
     EnhStatementsOf(<<Income0>>, <<EvRecord("list", 5, 3, 4)>>),
     EnhStatementsOf(<<Income0>>, <<EvRecord("list", 50, 3, 4)>>),
     EnhStatementsOf(<<Income0>>, <<EvRecord("list", 5, 3, 0)>>),
     EnhStatementsOf(<<Income0>>, <<>>),
     EnhStatementsOf(<<Without(Income0, "incomeTaxExpense")>>,
                     <<EvRecord("list", 5, 3, 4)>>),
     EnhStatementsOf(<<Without(Without(Income0, "operatingIncome"), "EBIT")>>,
                     <<EvRecord("list", 5, 3, 4)>>)}
EnhDiscountRates == {None, R(1, 10), R(1, 2)}
EnhPerpetualRates == {R(1, 40), R(1, 20), R(1, 10), Zero}
\* the debt of the latest year of a history
LatestDebt(data) ==
    IF Has(data, "yearly_metrics") /\ Len(data.yearly_metrics) > 0
    THEN SortByYear(data.yearly_metrics)[Len(data.yearly_metrics)].debt
    ELSE Zero

(***************************************************************************)
(* State.                                                                  *)
(***************************************************************************)
VARIABLES
    pc,        \* which function is running or has ended
    evArgs,    \* the arguments of the enterprise_value call
    evRet,     \* its outcome
    eqArgs,    \* the arguments of the equity_value call
    eqRet,     \* its outcome
    dcfArgs,   \* the arguments of the DCF call
    dcfRet,    \* its outcome
    histArgs,  \* historical_DCF: the fetched statements and the parameters
    intervals, \* historical_DCF: the number of windows
    interval,  \* historical_DCF: the loop index
    dcfs,      \* historical_DCF: the mapping built so far
    args,      \* run_setup: the caller's argparse namespace
    args0,     \* the namespace as it was when run_setup was called
    variable,  \* run_setup: the name of the swept option
    increment, \* run_setup: the loop index
    cond,      \* run_setup: the list of labels
    setup_dcfs, \* run_setup: the label -> result mapping
    valued,    \* the parameters each completed historical_DCF call received
    irrArgs,   \* the arguments of the calculate_irr call
    all_cash_flows, \* calculate_irr: the combined flows
    irr_rate,  \* calculate_irr: rate
    irr_passes, \* calculate_irr: the passes of the loop made so far
    irrRet,    \* its outcome
    waccArgs,  \* the arguments of the get_discount_rate call
    waccRet,   \* its outcome
    schedArgs, \* the arguments of the _create_variable_growth_schedule call
    schedRet,  \* its outcome
    mainArgs,  \* main: the options the sensitivity mode reads
    mainRet,   \* main: the variable it selected, or the exception it raised
    trendArgs, \* the arguments of the analyze_growth_trends call
    trendRet,  \* its outcome
    enhArgs,   \* the arguments of the enhanced_DCF_with_trends call
    enhRet     \* its outcome

evVars == <<evArgs, evRet>>
eqVars == <<eqArgs, eqRet>>
dcfVars == <<dcfArgs, dcfRet>>
histVars == <<histArgs, intervals, interval, dcfs>>
setupVars == <<args, args0, variable, increment, cond, setup_dcfs, valued>>
irrVars == <<irrArgs, all_cash_flows, irr_rate, irr_passes, irrRet>>
coreVars == <<evVars, eqVars, dcfVars, histVars, setupVars>>
waccVars == <<waccArgs, waccRet>>
schedVars == <<schedArgs, schedRet>>
mainVars == <<mainArgs, mainRet>>
trendVars == <<trendArgs, trendRet>>
enhVars == <<enhArgs, enhRet>>
laterVars == <<mainVars, trendVars, enhVars>>
pureVars == <<irrVars, waccVars, schedVars, laterVars>>
vars == <<pc, evVars, eqVars, dcfVars, histVars, setupVars, pureVars>>

NoCall == [exc |-> "none"]
EmptyMap == [k \in {} |-> NoRecord]

Init ==
    /\ pc = "idle"
    /\ evArgs = NoCall
    /\ evRet = NoCall
    /\ eqArgs = NoCall
    /\ eqRet = NoCall
    /\ dcfArgs = NoCall
    /\ dcfRet = NoCall
    /\ histArgs = NoCall
    /\ intervals = 0
    /\ interval = 0
    /\ dcfs = EmptyMap
    /\ args = NoCall
    /\ args0 = NoCall
    /\ variable = ""
    /\ increment = 0
    /\ cond = <<>>
    /\ setup_dcfs = EmptyMap
    /\ valued = <<>>
    /\ irrArgs = NoCall
    /\ all_cash_flows = <<>>
    /\ irr_rate = initial_guess
    /\ irr_passes = 0
    /\ irrRet = NoCall
    /\ waccArgs = NoCall
    /\ waccRet = NoCall
    /\ schedArgs = NoCall
    /\ schedRet = NoCall
    /\ mainArgs = NoCall
    /\ mainRet = NoCall
    /\ trendArgs = NoCall
    /\ trendRet = NoCall
    /\ enhArgs = NoCall
    /\ enhRet = NoCall

(***************************************************************************)
(* A call of enterprise_value.                                             *)
(***************************************************************************)
EnterpriseValueCall ==
    /\ pc = "idle"
    /\ \E c \in StatementCases, period \in 0..MaxHorizon, d \in DiscountRates,
          pg \in PerpetualRates, g \in GrowthPairs, v \in Overrides :
        /\ (IsNone(g[1]) => period <= DefaultsHorizon)
        /\ evArgs' = [income_statement |-> c.income, cashflow_statement |-> c.cashflow,
                      balance_statement |-> c.balance, period |-> period,
                      discount_rate |-> d, earnings_growth_rate |-> g[1],
                      cap_ex_growth_rate |-> g[2], perpetual_growth_rate |-> pg,
                      variable_growth_rates |-> v, prompt |-> c.prompt]
        /\ evRet' = enterprise_value(c.income, c.cashflow, c.balance, period, d,
                                     g[1], g[2], pg, v, c.prompt)
    /\ pc' = "enterprise_value"
    /\ UNCHANGED <<eqVars, dcfVars, histVars, setupVars, pureVars>>

(***************************************************************************)
(* A call of equity_value.                                                 *)
(***************************************************************************)
EquityValueCall ==
    /\ pc = "idle"
    /\ \E ev \in EnterpriseValues, st \in EvStatementCases :
        /\ eqArgs' = [enterprise_value |-> ev, enterprise_value_statement |-> st]
        /\ eqRet' = equity_value(ev, st)
    /\ pc' = "equity_value"
    /\ UNCHANGED <<evVars, dcfVars, histVars, setupVars, pureVars>>

(***************************************************************************)
(* A call of DCF.                                                          *)
(***************************************************************************)
DCFCall ==
    /\ pc = "idle"
    /\ \E c \in StatementCases, st \in EvStatementCases, forecast \in 1..MaxHorizon,
          d \in {R(1, 1), R(1, 2)} :
        /\ dcfArgs' = [ev_statement |-> st, income_statement |-> c.income,
                       balance_statement |-> c.balance,
                       cashflow_statement |-> c.cashflow, discount_rate |-> d,
                       forecast |-> forecast, earnings_growth_rate |-> R(1, 2),
                       cap_ex_growth_rate |-> R(1, 4),
                       perpetual_growth_rate |-> R(1, 2),
                       variable_growth_rates |-> [kind |-> "None"],
                       prompt |-> c.prompt]
        /\ dcfRet' = DCF(st, c.income, c.balance, c.cashflow, d, forecast, R(1, 2),
                         R(1, 4), R(1, 2), [kind |-> "None"], c.prompt)
    /\ pc' = "DCF"
    /\ UNCHANGED <<evVars, eqVars, histVars, setupVars, pureVars>>

(***************************************************************************)
(* historical_DCF.  The four fetches of lines 136-147 are not guarded: a   *)
(* fetch that raises ends the call.  Otherwise the loop of lines 154-176   *)
(* runs one window per step and line 178 returns the mapping.              *)
(***************************************************************************)
HistoricalFetchFails ==
    /\ pc = "idle"
    /\ pc' = "historical_DCF_raised"
    /\ UNCHANGED <<evVars, eqVars, dcfVars, histVars, setupVars, pureVars>>

HistoricalStart ==
    /\ pc = "idle"
    /\ \E s \in SeriesCases, years \in 0..MaxYears, kind \in {"annual", "quarter"},
          prompt \in {None, float(5)} :
        /\ (kind = "quarter" => years <= MaxQuarterYears)
        /\ histArgs' = [income_statement |-> s.income_statement,
                        balance_statement |-> s.balance_statement,
                        cashflow_statement |-> s.cashflow_statement,
                        enterprise_value_statement |-> s.enterprise_value_statement,
                        years |-> years, interval |-> kind, forecast |-> 1,
                        discount_rate |-> R(1, 1), earnings_growth_rate |-> R(1, 2),
                        cap_ex_growth_rate |-> R(1, 4),
                        perpetual_growth_rate |-> R(1, 2), prompt |-> prompt]
        /\ intervals' = Intervals(years, kind)
    /\ dcfs' = EmptyMap
    /\ interval' = 0
    /\ pc' = "historical_DCF"
    /\ UNCHANGED <<evVars, eqVars, dcfVars, setupVars, pureVars>>

HistoricalWindow ==
    /\ pc = "historical_DCF"
    /\ interval < intervals
    /\ \E t \in {TryWindow(dcfs, WindowDCF(histArgs, interval))} :
           /\ dcfs' = t.dcfs
           /\ IF t.raised
              THEN pc' = "historical_DCF_raised" /\ UNCHANGED interval
              ELSE pc' = pc /\ interval' = interval + 1
    /\ UNCHANGED <<evVars, eqVars, dcfVars, histArgs, intervals, setupVars, pureVars>>

HistoricalReturn ==
    /\ pc = "historical_DCF"
    /\ interval >= intervals
    /\ pc' = "historical_DCF_done"
    /\ UNCHANGED <<evVars, eqVars, dcfVars, histVars, setupVars, pureVars>>

(***************************************************************************)
(* run_setup.  One step is one pass of the loop of lines 134-141.          *)
(***************************************************************************)
RunSetupStart ==
    /\ pc = "idle"
    /\ \E n \in SweepNames, s \in SweepSteps, steps \in 0..MaxSteps,
          x \in SweepValues, y \in SweepValues :
        /\ args' = Namespace(n[1], s, steps, x, y, x, y)
        /\ args0' = Namespace(n[1], s, steps, x, y, x, y)
        /\ variable' = n[2]
    /\ increment' = 1
    /\ cond' = <<>>
    /\ setup_dcfs' = EmptyMap
    /\ valued' = <<>>
    /\ pc' = "run_setup"
    /\ UNCHANGED <<evVars, eqVars, dcfVars, histVars, pureVars>>

\* main in sensitivity mode (args.s > 0): lines 38-54 select the variable
\* and call run_setup, or raise
MainSensitivity ==
    /\ pc = "idle"
    /\ \E v_given \in BOOLEAN, v \in VariableNames, s \in SweepSteps, steps \in 0..MaxSteps,
          x \in SweepValues, y \in SweepValues :
        /\ (~v_given => v = "")
        /\ mainArgs' = [v_given |-> v_given, v |-> v, s |-> s]
        /\ mainRet' = MainSelection(v_given, v)
        /\ IF MainSelection(v_given, v).exc = ""
           THEN /\ args' = Namespace(v, s, steps, x, y, x, y)
                /\ args0' = Namespace(v, s, steps, x, y, x, y)
                /\ variable' = MainSelection(v_given, v).variable
                /\ increment' = 1
                /\ pc' = "run_setup"
           ELSE /\ pc' = "main_raised"
                /\ UNCHANGED <<args, args0, variable, increment>>
    /\ cond' = <<>>
    /\ setup_dcfs' = EmptyMap
    /\ valued' = <<>>
    /\ UNCHANGED <<evVars, eqVars, dcfVars, histVars, irrVars, waccVars, schedVars,
                   trendVars, enhVars>>

RunSetupStep ==
    /\ pc = "run_setup"
    /\ increment <= args.steps
    /\ IF ~Has(args, variable)
       THEN \* vars(args)[variable] raises KeyError
            /\ pc' = "run_setup_raised"
            /\ UNCHANGED setupVars
       ELSE LET var == Perturbed(args[variable], args.s, increment)
                step == StepLabel(args.v, var)
                written == [args EXCEPT ![variable] = var]
                params == [d |-> written.d, eg |-> written.eg, cg |-> written.cg,
                           pg |-> written.pg]
            IN  /\ cond' = Append(cond, step)
                /\ args' = written
                /\ IF CallBinds(RunSetupCallArgs, HistoricalDCFParams)
                   THEN /\ setup_dcfs' = Store(setup_dcfs, step, params)
                        /\ valued' = Append(valued, params)
                        /\ increment' = increment + 1
                        /\ pc' = pc
                   ELSE \* TypeError: the call never enters historical_DCF
                        /\ pc' = "run_setup_raised"
                        /\ UNCHANGED <<setup_dcfs, valued, increment>>
                /\ UNCHANGED <<args0, variable>>
    /\ UNCHANGED <<evVars, eqVars, dcfVars, histVars, pureVars>>

RunSetupReturn ==
    /\ pc = "run_setup"
    /\ increment > args.steps
    /\ pc' = "run_setup_done"
    /\ UNCHANGED <<evVars, eqVars, dcfVars, histVars, setupVars, pureVars>>

(***************************************************************************)
(* calculate_irr.  IrrCall is lines 793-810, IrrLoop one pass of the loop, *)
(* IrrReturn line 837.                                                     *)
(***************************************************************************)
IrrCall ==
    /\ pc = "idle"
    /\ \E c \in IrrCases :
        /\ irrArgs' = c
        /\ IF RLe(c.initial_investment, Zero)
           THEN /\ irrRet' = [exc |-> "", value |-> Zero]
                /\ pc' = "calculate_irr_done"
                /\ UNCHANGED all_cash_flows
           ELSE IF Len(c.cash_flows) = 0
           THEN \* cash_flows[-1] raises IndexError
                /\ irrRet' = [exc |-> "IndexError", value |-> Zero]
                /\ pc' = "calculate_irr_done"
                /\ UNCHANGED all_cash_flows
           ELSE /\ all_cash_flows' = CombinedCashFlows(c.initial_investment, c.cash_flows,
                                                       c.terminal_value)
                /\ irrRet' = NoCall
                /\ pc' = "calculate_irr"
    /\ irr_rate' = initial_guess
    /\ irr_passes' = 0
    /\ UNCHANGED <<laterVars, coreVars, waccVars, schedVars>>

IrrLoop ==
    /\ pc = "calculate_irr"
    /\ irr_passes < max_iterations
    /\ \E p \in {IrrPass(all_cash_flows, irr_rate)} :
        /\ irr_rate' = p.rate
        /\ pc' = IF p.break THEN "calculate_irr_break" ELSE pc
    /\ irr_passes' = irr_passes + 1
    /\ UNCHANGED <<laterVars, coreVars, waccVars, schedVars, irrArgs, all_cash_flows, irrRet>>

IrrReturn ==
    /\ \/ pc = "calculate_irr_break"
       \/ pc = "calculate_irr" /\ irr_passes >= max_iterations
    /\ irrRet' = [exc |-> "", value |-> IrrResult(irr_rate)]
    /\ pc' = "calculate_irr_done"
    /\ UNCHANGED <<laterVars, coreVars, waccVars, schedVars, irrArgs, all_cash_flows, irr_rate, irr_passes>>

(***************************************************************************)
(* A call of get_discount_rate.                                            *)
(***************************************************************************)
DiscountRateCall ==
    /\ pc = "idle"
    /\ \E equity_beta \in Betas, debt_to_equity \in DebtToEquities,
          tax_rate \in TaxRates, industry \in Industries :
        /\ waccArgs' = [equity_beta |-> equity_beta, debt_to_equity |-> debt_to_equity,
                        tax_rate |-> tax_rate, industry |-> industry]
        /\ waccRet' = get_discount_rate(equity_beta, debt_to_equity, tax_rate, industry)
    /\ pc' = "get_discount_rate"
    /\ UNCHANGED <<laterVars, coreVars, irrVars, schedVars>>

(***************************************************************************)
(* A call of _create_variable_growth_schedule.                             *)
(***************************************************************************)
GrowthScheduleCall ==
    /\ pc = "idle"
    /\ \E trends \in TrendProfiles, forecast_years \in 0..MaxForecastYears :
        /\ schedArgs' = [trends |-> trends, forecast_years |-> forecast_years]
        /\ schedRet' = create_variable_growth_schedule(trends, forecast_years)
    /\ pc' = "create_variable_growth_schedule"
    /\ UNCHANGED <<laterVars, coreVars, irrVars, waccVars>>

(***************************************************************************)
(* A call of analyze_growth_trends.                                        *)
(***************************************************************************)
AnalyzeTrendsCall ==
    /\ pc = "idle"
    /\ \E historical_data \in Histories :
        /\ trendArgs' = [historical_data |-> historical_data]
        /\ trendRet' = analyze_growth_trends(historical_data)
    /\ pc' = "analyze_growth_trends"
    /\ UNCHANGED <<coreVars, irrVars, waccVars, schedVars, mainVars, enhVars>>

(***************************************************************************)
(* A call of enhanced_DCF_with_trends.  The discount rate is estimated     *)
(* (discount_rate None) for the histories without debt, whose estimate is  *)
(* the cost of equity.                                                     *)
(***************************************************************************)
EnhancedCall ==
    /\ pc = "idle"
    /\ \E historical \in EnhHistoricalCases, statements \in EnhStatementCases,
          forecast_years \in 0..MaxEnhancedYears, discount_rate \in EnhDiscountRates,
          perpetual_growth_rate \in EnhPerpetualRates, prompt \in {None, float(5)} :
        /\ IsNone(discount_rate) => LatestDebt(historical.data) = Zero
        /\ enhArgs' = [ticker |-> "AAPL", forecast_years |-> forecast_years,
                       discount_rate |-> discount_rate,
                       perpetual_growth_rate |-> perpetual_growth_rate,
                       env |-> [historical |-> historical, statements |-> statements,
                                prompt |-> prompt]]
        /\ enhRet' = enhanced_DCF_with_trends(
                         [ticker |-> "AAPL", forecast_years |-> forecast_years,
                          discount_rate |-> discount_rate,
                          perpetual_growth_rate |-> perpetual_growth_rate],
                         [historical |-> historical, statements |-> statements,
                          prompt |-> prompt])
    /\ pc' = "enhanced_DCF_with_trends"
    /\ UNCHANGED <<coreVars, irrVars, waccVars, schedVars, mainVars, trendVars>>

Next ==
    \/ RunSetupStart
    \/ RunSetupStep
    \/ RunSetupReturn
    \/ EnterpriseValueCall
    \/ EquityValueCall
    \/ DCFCall
    \/ HistoricalFetchFails
    \/ HistoricalStart
    \/ HistoricalWindow
    \/ HistoricalReturn
    \/ IrrCall
    \/ IrrLoop
    \/ IrrReturn
    \/ DiscountRateCall
    \/ GrowthScheduleCall
    \/ MainSensitivity
    \/ AnalyzeTrendsCall
    \/ EnhancedCall

Spec == Init /\ [][Next]_vars

\* calculate_irr on its own.  It is sequential code: a loop that can make a
\* pass makes it, and a loop that has ended is followed by the return
\* statement.
IrrNext ==
    \/ IrrCall
    \/ IrrLoop
    \/ IrrReturn

\* IrrLoop is enabled exactly when the guards of IrrLoopAdvances hold, and
\* every IrrLoop step raises the pass count by one.
IrrLoopAdvances ==
    /\ pc = "calculate_irr"
    /\ irr_passes < max_iterations
    /\ irr_passes' = irr_passes + 1

IrrSpec ==
    Init /\ [][IrrNext]_vars /\ WF_irr_passes(IrrLoopAdvances) /\ WF_vars(IrrReturn)

(***************************************************************************)
(* Properties of enterprise_value.                                         *)
(***************************************************************************)
EvEnded == pc = "enterprise_value"
SchedulesBuilt == EvEnded /\ evRet.stage \in {"forecast", "terminal", "return"}

\* C1: whenever enterprise_value has built its schedules (override None, a
\* dict of any content, a list of any length), the earnings schedule and the
\* capex schedule both have exactly as many entries as the forecast horizon.
C1_ScheduleLength ==
    SchedulesBuilt =>
        /\ Len(evRet.growth_rates) = evArgs.period
        /\ Len(evRet.cap_ex_growth_rates) = evArgs.period

C1_Witness ==
    /\ SchedulesBuilt
    /\ evArgs.variable_growth_rates.kind = "list"
    /\ Len(evArgs.variable_growth_rates.items) > evArgs.period
    /\ evArgs.period >= 1
    /\ Len(evRet.growth_rates) = evArgs.period

\* C2: enterprise_value raises whenever discount_rate <= perpetual_growth_rate.
C2_RaisesWhenDiscountNotAbovePerpetual ==
    (EvEnded /\ RLe(evArgs.discount_rate, evArgs.perpetual_growth_rate))
        => evRet.exc # ""

\* C10: the returned enterprise value is the sum of the discounted flows of
\* years 1..horizon plus flows[horizon-1]*(1+pg)/(d-pg) discounted by
\* (1+d)^(horizon+1).
RECURSIVE SumFirst(_, _)
SumFirst(s, k) == IF k = 0 THEN Zero ELSE RAdd(SumFirst(s, k - 1), s[k])

C10_EnterpriseValueSum ==
    (EvEnded /\ evRet.stage = "return") =>
        LET h == evArgs.period
            d == evArgs.discount_rate
            pg == evArgs.perpetual_growth_rate
            tv == RDiv(RMul(evRet.flows[h], RAdd(One, pg)), RSub(d, pg))
        IN  /\ Len(evRet.flows) = h
            /\ evRet.value = RAdd(SumFirst(evRet.flows, h),
                                  RDiv(tv, RPow(RAdd(One, d), h + 1)))

C10_Witness ==
    /\ EvEnded /\ evRet.stage = "return"
    /\ evArgs.period = 2
    /\ evArgs.variable_growth_rates.kind = "None"
    /\ evRet.value # Zero

\* the years the forecast loop completed, and the constant rates in force
\* when there is no override
ForecastRan == EvEnded /\ evRet.stage \in {"forecast", "terminal", "return"}
NoOverride == evArgs.variable_growth_rates.kind = "None"
EffectiveEarningsGrowth ==
    IF IsNone(evArgs.earnings_growth_rate) THEN default_earnings_growth_rate
    ELSE evArgs.earnings_growth_rate
EffectiveCapexGrowth ==
    IF IsNone(evArgs.cap_ex_growth_rate) THEN default_capex_growth_rate
    ELSE evArgs.cap_ex_growth_rate

\* C11: with no override and a constant earnings growth rate g, EBIT of
\* forecast year k is base_ebit*(1+g)^k and non-cash charges of year k are
\* base_ncc*(1+g)^k, for every year k of the horizon; capex of year k is
\* base_capex*(1+cap_ex_growth_rate)^k.
C11_ConstantGrowthCompounds ==
    (ForecastRan /\ NoOverride) =>
        \A k \in 1..Len(evRet.rows) :
            /\ evRet.rows[k].ebit =
                   RMul(evRet.base.ebit, RPow(RAdd(One, EffectiveEarningsGrowth), k))
            /\ evRet.rows[k].non_cash_charges =
                   RMul(evRet.base.non_cash_charges,
                        RPow(RAdd(One, EffectiveEarningsGrowth), k))
            /\ evRet.rows[k].cap_ex =
                   RMul(evRet.base.cap_ex, RPow(RAdd(One, EffectiveCapexGrowth), k))

C11_Witness ==
    /\ ForecastRan /\ NoOverride /\ evRet.stage = "return"
    /\ evArgs.period = 2 /\ Len(evRet.rows) = 2
    /\ evArgs.earnings_growth_rate = R(1, 2)
    /\ evRet.base.ebit = float(8)
    /\ evRet.rows[2].ebit = float(18)
    /\ evRet.rows[2].cap_ex = R(-25, 4)

\* C12: the working-capital term of forecast year k is base_cwc*decay^k for
\* every year k of the horizon, whatever growth rates or override are given.
C12_WorkingCapitalDecays ==
    ForecastRan =>
        \A k \in 1..Len(evRet.rows) :
            evRet.rows[k].cwc =
                RMul(evRet.base.cwc, RPow(working_capital_decay_rate, k))

C12_Witness ==
    /\ ForecastRan /\ evRet.stage = "return"
    /\ evArgs.variable_growth_rates.kind = "list"
    /\ evArgs.period = 2 /\ Len(evRet.rows) = 2
    /\ evRet.base.cwc = float(2)
    /\ evRet.rows[1].cwc = R(7, 5)
    /\ evRet.rows[2].cwc = R(49, 50)

\* C13: forecast year k contributes
\* (EBIT_k*(1-tax_rate) + non_cash_charges_k + cwc_k + capex_k)/(1+d)^k to
\* the enterprise value, capex being added, and tax_rate being the base
\* period's incomeTaxExpense/incomeBeforeTax in every year.
BaseTaxRate ==
    RDiv(float(evArgs.income_statement[1]["incomeTaxExpense"]),
         float(evArgs.income_statement[1]["incomeBeforeTax"]))

C13_YearContribution ==
    ForecastRan =>
        /\ Len(evRet.flows) = Len(evRet.rows)
        /\ \A k \in 1..Len(evRet.rows) :
              LET row == evRet.rows[k]
                  free == RAdd(RAdd(RAdd(RMul(row.ebit, RSub(One, BaseTaxRate)),
                                         row.non_cash_charges), row.cwc), row.cap_ex)
              IN  evRet.flows[k] = RDiv(free, RPow(RAdd(One, evArgs.discount_rate), k))

C13_Witness ==
    /\ ForecastRan /\ evRet.stage = "return"
    /\ evArgs.period = 2 /\ Len(evRet.flows) = 2
    /\ evRet.rows[2].cap_ex # Zero
    /\ BaseTaxRate = R(1, 4)
    /\ evRet.flows[2] # Zero

\* the call repeated with another override, all else equal
EvWithOverride(v) ==
    enterprise_value(evArgs.income_statement, evArgs.cashflow_statement,
                     evArgs.balance_statement, evArgs.period, evArgs.discount_rate,
                     evArgs.earnings_growth_rate, evArgs.cap_ex_growth_rate,
                     evArgs.perpetual_growth_rate, v, evArgs.prompt)

\* C14: with a list override L and horizon h, position k (0-based, k < h)
\* of the schedule is L[k] when k < len(L) and the fallback earnings growth
\* rate otherwise; the elements of L at positions >= h change nothing; and
\* the capex schedule is the same list as the earnings schedule.
C14_ListOverride ==
    (SchedulesBuilt /\ evArgs.variable_growth_rates.kind = "list") =>
        LET L == evArgs.variable_growth_rates.items
            h == evArgs.period
        IN  /\ Len(evRet.growth_rates) = h
            /\ \A k \in 0..(h - 1) :
                  evRet.growth_rates[k + 1] =
                      IF k < Len(L) THEN L[k + 1] ELSE evArgs.earnings_growth_rate
            /\ evRet.cap_ex_growth_rates = evRet.growth_rates
            /\ evRet = EvWithOverride([kind |-> "list",
                                       items |-> SubSeq(L, 1, Min(h, Len(L)))])

C14_Witness ==
    /\ SchedulesBuilt /\ evRet.stage = "return"
    /\ evArgs.variable_growth_rates.kind = "list"
    /\ evArgs.variable_growth_rates.items = <<R(-1, 2)>>
    /\ evArgs.period = 2
    /\ evRet.growth_rates = <<R(-1, 2), R(1, 2)>>
    /\ evRet.cap_ex_growth_rates = <<R(-1, 2), R(1, 2)>>

C14_WitnessTruncated ==
    /\ SchedulesBuilt /\ evRet.stage = "return"
    /\ evArgs.variable_growth_rates.kind = "list"
    /\ evArgs.variable_growth_rates.items = <<R(1, 2), R(-1, 2), R(-1, 2)>>
    /\ evArgs.period = 2
    /\ evRet.growth_rates = <<R(1, 2), R(-1, 2)>>

\* C15: with a dict override and base statement year Y, the growth rate of
\* forecast year i (i in 1..horizon) is the dict's value for key Y+i when
\* the key is present and the fallback earnings growth rate otherwise; the
\* keys outside Y+1..Y+horizon change nothing.
C15_DictOverride ==
    (SchedulesBuilt /\ evArgs.variable_growth_rates.kind = "dict") =>
        LET map == evArgs.variable_growth_rates.map
            Y == YearOf(evArgs.income_statement[1]["date"])
            h == evArgs.period
            inside == (DOMAIN map) \cap ((Y + 1)..(Y + h))
        IN  /\ Len(evRet.growth_rates) = h
            /\ \A i \in 1..h :
                  evRet.growth_rates[i] =
                      IF (Y + i) \in DOMAIN map THEN map[Y + i]
                      ELSE evArgs.earnings_growth_rate
            /\ evRet = EvWithOverride([kind |-> "dict",
                                       map |-> [y \in inside |-> map[y]]])

C15_Witness ==
    /\ SchedulesBuilt /\ evRet.stage = "return"
    /\ evArgs.variable_growth_rates.kind = "dict"
    /\ DOMAIN evArgs.variable_growth_rates.map = {2020, 2021, 2024}
    /\ YearOf(evArgs.income_statement[1]["date"]) = 2020
    /\ evArgs.period = 2
    /\ evRet.growth_rates = <<DictRate(2021), R(1, 2)>>

\* C16: when the statements are readable, enterprise_value raises
\* ValueError whenever variable_growth_rates is neither None, a dict nor a
\* list; in every case such a call returns no value.
C16_OtherShapeRaises ==
    (EvEnded /\ evArgs.variable_growth_rates.kind \notin {"None", "dict", "list"}) =>
        /\ evRet.exc # ""
        /\ evRet.stage # "return"
        /\ evRet.base.exc = "" => (evRet.exc = "ValueError" /\ evRet.stage = "schedule")

C16_Witness ==
    /\ EvEnded
    /\ evArgs.variable_growth_rates.kind = "other"
    /\ evRet.base.exc = ""
    /\ evArgs.period = 2
    /\ evRet.exc = "ValueError"

(***************************************************************************)
(* Properties of equity_value and DCF.                                     *)
(***************************************************************************)
EqEnded == pc = "equity_value"
EqData == EvData(eqArgs.enterprise_value_statement)
EqKind == eqArgs.enterprise_value_statement.kind
EqHasRecord == EqKind = "dict" \/ Len(eqArgs.enterprise_value_statement.items) > 0
EqHasFields == EqHasRecord /\ EvFields(EqKind) \subseteq DOMAIN EqData

\* C8: whenever equity_value returns, in the list format (first record) and
\* in the dict format alike, equity = enterprise_value - total_debt + cash and
\* share_price = equity / shares_outstanding.
C8_EquityBridge ==
    (EqEnded /\ eqRet.exc = "") =>
        /\ EqHasFields
        /\ RAdd(eqRet.equity_val, float(EqData[DebtField(EqKind)]))
              = RAdd(eqArgs.enterprise_value, float(EqData[CashField(EqKind)]))
        /\ RMul(eqRet.share_price, float(EqData[SharesField(EqKind)])) = eqRet.equity_val

C8_Witness ==
    /\ EqEnded /\ eqRet.exc = ""
    /\ EqKind = "list"
    /\ Len(eqArgs.enterprise_value_statement.items) = 2
    /\ EqData[DebtField(EqKind)] = 5
    /\ eqArgs.enterprise_value = R(21, 2)
    /\ eqRet.equity_val = R(17, 2)
    /\ eqRet.share_price = R(17, 8)

\* C9: equity_value fails and returns no values when debt, cash or share
\* count is absent, fails with ZeroDivisionError when shares outstanding is
\* zero, and in DCF either failure leaves DCF as that exception, without a
\* valuation record.
DcfEnded == pc = "DCF"
DcfEnterprise ==
    enterprise_value(dcfArgs.income_statement, dcfArgs.cashflow_statement,
                     dcfArgs.balance_statement, dcfArgs.forecast, dcfArgs.discount_rate,
                     dcfArgs.earnings_growth_rate, dcfArgs.cap_ex_growth_rate,
                     dcfArgs.perpetual_growth_rate, dcfArgs.variable_growth_rates,
                     dcfArgs.prompt)
DcfKind == dcfArgs.ev_statement.kind
DcfHasRecord == DcfKind = "dict" \/ Len(dcfArgs.ev_statement.items) > 0
DcfFieldAbsent ==
    DcfHasRecord /\ ~(EvFields(DcfKind) \subseteq DOMAIN EvData(dcfArgs.ev_statement))
DcfSharesZero ==
    /\ DcfHasRecord
    /\ EvFields(DcfKind) \subseteq DOMAIN EvData(dcfArgs.ev_statement)
    /\ EvData(dcfArgs.ev_statement)[SharesField(DcfKind)] = 0

C9_EquityFailures ==
    /\ (EqEnded /\ EqHasRecord /\ ~EqHasFields) =>
            (eqRet.exc = "KeyError" /\ IsNone(eqRet.equity_val) /\ IsNone(eqRet.share_price))
    /\ (EqEnded /\ EqHasFields /\ EqData[SharesField(EqKind)] = 0) =>
            (eqRet.exc = "ZeroDivisionError" /\ IsNone(eqRet.equity_val)
             /\ IsNone(eqRet.share_price))
    /\ (DcfEnded /\ DcfEnterprise.exc = "" /\ DcfFieldAbsent) =>
            (dcfRet.exc = "KeyError" /\ dcfRet.ret = NoRecord)
    /\ (DcfEnded /\ DcfEnterprise.exc = "" /\ DcfSharesZero) =>
            (dcfRet.exc = "ZeroDivisionError" /\ dcfRet.ret = NoRecord)

C9_Witness ==
    /\ DcfEnded /\ DcfEnterprise.exc = "" /\ DcfSharesZero
    /\ dcfRet.exc = "ZeroDivisionError"

(***************************************************************************)
(* Properties of historical_DCF.                                           *)
(***************************************************************************)
HistRunning == pc = "historical_DCF"
HistDone == pc = "historical_DCF_done"
HistRaised == pc = "historical_DCF_raised"
\* windows (counted from 0) already handled by the loop
Handled == IF HistRunning \/ HistDone THEN 0..(interval - 1) ELSE {}
WindowFails(w) == WindowDCF(histArgs, w).exc # ""
WindowDate(w) == histArgs.income_statement[w + 1]["date"]

\* C3: an exception raised while valuing a window never leaves
\* historical_DCF (the call leaves by an exception only before the first
\* window, when a fetch fails), the failing window has no entry in the
\* result, every other handled window has exactly the entry its own
\* valuation yields, and the loop goes on to the last window.
C3_WindowFailureIsolated ==
    /\ HistRaised => histArgs = NoCall
    /\ HistDone => interval = intervals
    /\ \A w \in Handled :
        IF WindowFails(w)
        THEN (w + 1 <= Len(histArgs.income_statement)
                /\ Has(histArgs.income_statement[w + 1], "date"))
             => WindowDate(w) \notin DOMAIN dcfs
        ELSE /\ WindowDate(w) \in DOMAIN dcfs
             /\ dcfs[WindowDate(w)] = WindowDCF(histArgs, w).ret
    /\ DOMAIN dcfs = {WindowDate(w) : w \in {x \in Handled : ~WindowFails(x)}}

C3_Witness ==
    /\ HistDone
    /\ intervals = 4
    /\ WindowFails(1) /\ WindowDCF(histArgs, 1).exc = "ZeroDivisionError"
    /\ ~WindowFails(0) /\ ~WindowFails(2) /\ ~WindowFails(3)
    /\ Cardinality(DOMAIN dcfs) = 3

\* C4 (as stated): 5 windows over a 5-period series in which exactly period 3
\* lacks a required field return exactly 4 entries, every period but period 3.
MissingIn(statement, p, required) ==
    p <= Len(histArgs[statement]) /\ ~(required \subseteq DOMAIN histArgs[statement][p])
MissingAny(p) ==
    \/ MissingIn("income_statement", p, IncomeRequired)
    \/ MissingIn("cashflow_statement", p, CashflowRequired)
    \/ MissingIn("balance_statement", p, BalanceRequired)
Complete(p) ==
    /\ ~MissingAny(p)
    /\ Truthy(histArgs.income_statement[p], "operatingIncome")
    /\ histArgs.income_statement[p]["incomeBeforeTax"] # 0
    /\ EvFields("dict") \subseteq DOMAIN histArgs.enterprise_value_statement[p]
    /\ histArgs.enterprise_value_statement[p][SharesField("dict")] # 0
FiveByFiveMissing3 ==
    /\ HistDone
    /\ histArgs.interval = "annual" /\ histArgs.years = 5
    /\ Len(histArgs.income_statement) = 5
    /\ MissingAny(3)
    /\ \A p \in {1, 2, 4, 5} : Complete(p)

C4_Original_FourEntries ==
    FiveByFiveMissing3 =>
        DOMAIN dcfs = {PeriodDate(p) : p \in {1, 2, 4, 5}}

\* C4 (amended): such a run raises nothing and returns exactly 3 entries
\* (periods 1, 2 and 4) when the missing field is an income or cash-flow
\* field and exactly 2 entries (periods 1 and 4) when it is a balance-sheet
\* field: the window of period 5 has no older balance sheet to difference
\* against, and the window of period 2 reads the balance sheet of period 3.
C4_EntriesOfFiveByFive ==
    FiveByFiveMissing3 =>
        IF MissingIn("balance_statement", 3, BalanceRequired)
        THEN DOMAIN dcfs = {PeriodDate(p) : p \in {1, 4}}
        ELSE DOMAIN dcfs = {PeriodDate(p) : p \in {1, 2, 4}}

C4_Witness ==
    /\ FiveByFiveMissing3
    /\ MissingIn("cashflow_statement", 3, CashflowRequired)
    /\ Cardinality(DOMAIN dcfs) = 3

C4_WitnessBalance ==
    /\ FiveByFiveMissing3
    /\ MissingIn("balance_statement", 3, BalanceRequired)
    /\ Cardinality(DOMAIN dcfs) = 2

(***************************************************************************)
(* Properties of run_setup.                                                *)
(***************************************************************************)
SetupReturned == pc = "run_setup_done"
SetupEnded == pc \in {"run_setup_done", "run_setup_raised"}

\* C5: a sweep of N steps with step size s on a parameter starting at v
\* hands v*(1+s*i) to the i-th valuation, for every i in 1..N.
C5_SweepValues ==
    SetupEnded =>
        /\ Len(valued) = args0.steps
        /\ \A i \in 1..Len(valued) :
              /\ Has(args0, variable)
              /\ valued[i][variable] = Perturbed(args0[variable], args0.s, i)

\* C6: when the sweep is over, the caller's namespace holds the values it
\* held before the call, for the swept parameter and for every other one.
C6_NoMutationLeak == SetupEnded => args = args0

\* C7: the mapping a sweep of N steps returns has exactly N entries, one
\* per step, each under its own label.
C7_OneEntryPerStep ==
    SetupEnded =>
        /\ SetupReturned
        /\ Cardinality(DOMAIN setup_dcfs) = args0.steps
        /\ Len(cond) = args0.steps
        /\ \A i, j \in 1..Len(cond) : i # j => cond[i] # cond[j]


(***************************************************************************)
(* Properties of calculate_irr.                                            *)
(***************************************************************************)
IrrLoopEntered ==
    /\ pc \in {"calculate_irr", "calculate_irr_break", "calculate_irr_done"}
    /\ ~RLe(irrArgs.initial_investment, Zero)
    /\ Len(irrArgs.cash_flows) > 0
IrrEnded == pc = "calculate_irr_done"
IrrRateReasonable == RLe(R(-1, 2), irr_rate) /\ RLe(irr_rate, float(2))

C17_WitnessInRange ==
    /\ IrrEnded /\ IrrLoopEntered
    /\ irr_passes = 3
    /\ irr_rate = R(-1, 3)
    /\ irrRet = [exc |-> "", value |-> R(-1, 3)]

\* C18: for a positive initial investment and a non-empty cash-flow list the
\* loop starts at 10%, makes at most 100 passes, keeps the candidate rate
\* within [-0.99, 5.0] after every update, and is followed by a normal return.
IrrBounded ==
    IrrLoopEntered =>
        /\ irr_passes <= 100
        /\ irr_passes = 0 => irr_rate = R(1, 10)
        /\ RLe(R(-99, 100), irr_rate) /\ RLe(irr_rate, float(5))
IrrStarted == pc = "calculate_irr"
IrrReturnedNormally == IrrEnded /\ irrRet.exc = "" /\ irr_passes <= 100

C18_IrrTerminatesWithinBounds ==
    /\ []IrrBounded
    /\ IrrStarted ~> IrrReturnedNormally

C18_Witness ==
    /\ IrrEnded /\ IrrLoopEntered
    /\ irr_passes = 100
    /\ irr_rate = float(5)
    /\ irrRet.exc = ""


(***************************************************************************)
(* Properties of get_discount_rate.                                        *)
(***************************************************************************)
WaccEnded == pc = "get_discount_rate"
WaccBeta == IF IsNone(waccArgs.equity_beta) THEN One ELSE waccArgs.equity_beta
WaccCostOfEquity == RAdd(R(1, 25), RMul(WaccBeta, R(3, 50)))
WaccStructureGiven == ~IsNone(waccArgs.debt_to_equity) /\ ~IsNone(waccArgs.tax_rate)

\* C19: when debt_to_equity and tax_rate are both supplied, the value
\* get_discount_rate returns is
\* equity_weight*cost_of_equity + debt_weight*cost_of_debt*(1-t), with
\* cost_of_equity = risk_free_rate + beta*market_premium, cost_of_debt =
\* risk_free_rate + min(0.05, 0.02*D/E), equity_weight = 1/(1+D/E),
\* debt_weight = (D/E)/(1+D/E) and t the supplied tax rate clamped to
\* [0.15, 0.35]; when either is absent it returns cost_of_equity.
C19_DiscountRate ==
    WaccEnded =>
        /\ ~WaccStructureGiven =>
              waccRet = [exc |-> "", value |-> WaccCostOfEquity]
        /\ (WaccStructureGiven /\ waccRet.exc = "") =>
              LET de == waccArgs.debt_to_equity
                  given == waccArgs.tax_rate
                  t == IF RLe(given, R(3, 20)) THEN R(3, 20)
                       ELSE IF RLe(R(7, 20), given) THEN R(7, 20) ELSE given
                  spread == IF RLe(R(1, 20), RMul(R(1, 50), de)) THEN R(1, 20)
                            ELSE RMul(R(1, 50), de)
                  cost_of_debt == RAdd(R(1, 25), spread)
                  equity_weight == RDiv(One, RAdd(One, de))
                  debt_weight == RDiv(de, RAdd(One, de))
              IN  waccRet.value =
                      RAdd(RMul(equity_weight, WaccCostOfEquity),
                           RMul(RMul(debt_weight, cost_of_debt), RSub(One, t)))
        /\ (WaccStructureGiven /\ waccArgs.debt_to_equity # float(-1)) =>
              waccRet.exc = ""

C19_Witness ==
    /\ WaccEnded /\ WaccStructureGiven
    /\ waccArgs.debt_to_equity = float(3)
    /\ waccArgs.tax_rate = R(1, 2)
    /\ waccArgs.equity_beta = R(3, 2)
    /\ waccRet = [exc |-> "", value |-> R(611, 8000)]

C19_WitnessProxy ==
    /\ WaccEnded /\ ~WaccStructureGiven
    /\ waccArgs.debt_to_equity = One
    /\ IsNone(waccArgs.equity_beta)
    /\ waccRet.value = R(1, 10)

(***************************************************************************)
(* Properties of _create_variable_growth_schedule.                         *)
(***************************************************************************)
SchedEnded == pc = "create_variable_growth_schedule"
SchedProfileComplete ==
    /\ Has(schedArgs.trends, "recent_revenue_growth")
    /\ Has(schedArgs.trends, "revenue_cagr")

\* C20: for every trend profile (one that holds both revenue growth figures,
\* as numbers) and every forecast_years >= 0,
\* _create_variable_growth_schedule returns a list of exactly forecast_years
\* rates, each within [-0.10, +0.50].
C20_ScheduleClamped ==
    (SchedEnded /\ SchedProfileComplete) =>
        /\ schedRet.exc = ""
        /\ Len(schedRet.growth_schedule) = schedArgs.forecast_years
        /\ \A k \in 1..Len(schedRet.growth_schedule) :
              /\ RLe(R(-1, 10), schedRet.growth_schedule[k])
              /\ RLe(schedRet.growth_schedule[k], R(1, 2))

C20_Witness ==
    /\ SchedEnded /\ SchedProfileComplete
    /\ schedArgs.forecast_years = 6
    /\ schedArgs.trends.recent_revenue_growth = One
    /\ schedArgs.trends.revenue_cagr = R(-1, 5)
    /\ ~Has(schedArgs.trends, "maturity_factor")
    /\ schedRet.growth_schedule =
           <<R(1, 2), R(1, 2), R(1, 5), R(-1, 10), R(-7, 80), R(1, 40)>>


(***************************************************************************)
(* Further properties of historical_DCF and enterprise_value.              *)
(***************************************************************************)
SucceededWindows == {w \in 0..(intervals - 1) : ~WindowFails(w)}

\* C22: the mapping historical_DCF returns has exactly one entry per window
\* whose valuation succeeded (the statement dates of a series being
\* distinct): as many entries as windows valued without an exception, each
\* under the statement date of its window.
C22_OneEntryPerSucceededWindow ==
    HistDone =>
        /\ Cardinality(DOMAIN dcfs) = Cardinality(SucceededWindows)
        /\ DOMAIN dcfs = {WindowDate(w) : w \in SucceededWindows}
        /\ \A w \in SucceededWindows :
              dcfs[WindowDate(w)] = WindowDCF(histArgs, w).ret

C22_Witness ==
    /\ HistDone
    /\ intervals = 5
    /\ Cardinality(SucceededWindows) = 3
    /\ Cardinality(DOMAIN dcfs) = 3
    /\ \E w \in 0..3 : WindowFails(w)

\* C25: the terminal value is the Gordon-growth value of the final forecast
\* year's unlevered free cash flow as it is before discounting, grown one
\* more period: TV = free_h*(1+pg)/(d-pg), so that the returned value is the
\* sum of the discounted flows plus TV/(1+d)^(h+1).
C25_TerminalFromUndiscountedFlow ==
    (EvEnded /\ evRet.stage = "return") =>
        LET h == evArgs.period
            d == evArgs.discount_rate
            pg == evArgs.perpetual_growth_rate
            row == evRet.rows[h]
            free == RAdd(RAdd(RAdd(RMul(row.ebit, RSub(One, evRet.base.tax_rate)),
                                   row.non_cash_charges), row.cwc), row.cap_ex)
            TV == RDiv(RMul(free, RAdd(One, pg)), RSub(d, pg))
        IN  evRet.value = RAdd(RSum(evRet.flows),
                               RDiv(TV, RPow(RAdd(One, d), h + 1)))

\* C30: enterprise_value takes EBIT from operatingIncome whenever the field
\* is present, a value of 0 included, from the EBIT field only when
\* operatingIncome is absent, and from the prompt only when both are absent.
C30_EbitSource ==
    (EvEnded /\ evRet.base.exc = "") =>
        LET inc == evArgs.income_statement[1]
        IN  evRet.base.ebit =
                IF Has(inc, "operatingIncome") THEN float(inc["operatingIncome"])
                ELSE IF Has(inc, "EBIT") THEN float(inc["EBIT"])
                ELSE evArgs.prompt

(***************************************************************************)
(* The shape of the trend-derived schedule.                                *)
(***************************************************************************)
\* what lines 861-867 make of a rate: scaled by both factors, then bounded
ScaledAndBounded(rate) ==
    RMin(RMax(RMul(rate, RMul(FactorOf(schedArgs.trends, "maturity_factor"),
                              FactorOf(schedArgs.trends, "debt_constraint_factor"))),
              R(-1, 10)), R(1, 2))

\* the rate of year k (from 1) of an n-year schedule before scaling: the
\* first three years blend recent growth into the long-term rate; of the
\* later years the last is 2.5%, the one before it the midpoint, the others
\* the long-term rate
ShapeRate(k, n) ==
    LET recent == schedArgs.trends["recent_revenue_growth"]
        cagr == schedArgs.trends["revenue_cagr"]
    IN  IF k <= 3
        THEN RDiv(RAdd(RMul(recent, R(4 - k, 1)), RMul(cagr, R(k - 1, 1))), R(3, 1))
        ELSE IF k = n THEN R(1, 40)
        ELSE IF k = n - 1 THEN RDiv(RAdd(cagr, R(1, 40)), R(2, 1))
        ELSE cagr

\* C26 (as amended): for every horizon n >= 1 the schedule is, before the
\* scaling by the maturity and debt factors and the bounding: year 1 the
\* recent growth, years 2 and 3 the 2/3:1/3 and 1/3:2/3 blends of recent
\* growth and long-term CAGR; of the years after the third, the last is
\* exactly 2.5%, the one before it halfway between the CAGR and 2.5%, and
\* the others the CAGR.  The final year is 2.5% when n >= 4.
C26_ScheduleShape ==
    (SchedEnded /\ SchedProfileComplete) =>
        \A k \in 1..schedArgs.forecast_years :
            schedRet.growth_schedule[k] =
                ScaledAndBounded(ShapeRate(k, schedArgs.forecast_years))

C26_Witness ==
    /\ SchedEnded /\ SchedProfileComplete
    /\ schedArgs.forecast_years = 6
    /\ schedArgs.trends.recent_revenue_growth = R(1, 10)
    /\ schedArgs.trends.revenue_cagr = R(1, 20)
    /\ ~Has(schedArgs.trends, "maturity_factor")
    /\ schedRet.growth_schedule =
           <<R(1, 10), R(1, 12), R(1, 15), R(1, 20), R(3, 80), R(1, 40)>>

\* C26 (as stated): for every horizon n >= 1 the final forecast year's rate
\* is, before the scaling by the factors, exactly 2.5%.
C26_Original_FinalYearIsTerminalRate ==
    (SchedEnded /\ SchedProfileComplete /\ schedArgs.forecast_years >= 1) =>
        schedRet.growth_schedule[schedArgs.forecast_years] =
            ScaledAndBounded(R(1, 40))

(***************************************************************************)
(* calculate_irr on an annuity priced at a known rate.                     *)
(***************************************************************************)
KnownRates == {R(1, 10), R(6, 5), float(2)}
IsAnnuity ==
    \A k \in 1..Len(irrArgs.cash_flows) : irrArgs.cash_flows[k] = irrArgs.cash_flows[1]
\* the present value of the stream at rate r equals the initial investment
PricedAt(r) ==
    /\ IrrLoopEntered
    /\ IsAnnuity
    /\ npv(CombinedCashFlows(irrArgs.initial_investment, irrArgs.cash_flows,
                             irrArgs.terminal_value),
           r, Len(irrArgs.cash_flows) + 1) = Zero
\* abs(x - y) <= 1e-4
Within1e4(x, y) == RLe(RSub(x, y), R(1, 10000)) /\ RLe(RSub(y, x), R(1, 10000))

C23_WitnessAtGuess ==
    /\ IrrEnded /\ PricedAt(R(1, 10))
    /\ Len(irrArgs.cash_flows) = 2
    /\ irrArgs.terminal_value = float(10)
    /\ irrRet.value = R(1, 10)

MainCalled == mainRet # NoCall
\* the option each name of --v stands for
NamedOption ==
    [n \in {"eg", "earnings_growth_rate", "cg", "cap_ex_growth_rate", "pg",
            "perpetual_growth_rate", "discount", "discount_rate"} |->
        IF n \in {"eg", "earnings_growth_rate"} THEN "eg"
        ELSE IF n \in {"cg", "cap_ex_growth_rate"} THEN "cg"
        ELSE IF n \in {"pg", "perpetual_growth_rate"} THEN "pg"
        ELSE "discount"]

\* C24: in sensitivity mode the parameter perturbed is the one --v names:
\* 'eg' or 'earnings_growth_rate' the earnings growth rate, 'cg' or
\* 'cap_ex_growth_rate' the capex growth rate, 'pg' or
\* 'perpetual_growth_rate' the perpetual growth rate, 'discount' or
\* 'discount_rate' the discount rate; any other name raises ValueError.
C24_SweepsNamedVariable ==
    (MainCalled /\ mainArgs.v_given) =>
        IF mainArgs.v \in DOMAIN NamedOption
        THEN /\ mainRet.exc = ""
             /\ variable = NamedOption[mainArgs.v]
             /\ \A k \in DOMAIN args0 :
                    (k # variable /\ pc \in {"run_setup", "run_setup_raised", "run_setup_done"})
                        => args[k] = args0[k]
        ELSE mainRet.exc = "ValueError"

(***************************************************************************)
(* Properties of analyze_growth_trends.                                    *)
(***************************************************************************)
TrendsEnded == pc = "analyze_growth_trends"
TrendsReturned == TrendsEnded /\ trendRet.exc = ""
TrendYears == Len(trendArgs.historical_data.yearly_metrics)
\* the rows of the earliest and of the latest year
EarliestRow ==
    CHOOSE r \in {trendArgs.historical_data.yearly_metrics[k] : k \in 1..TrendYears} :
        \A k \in 1..TrendYears : r.year <= trendArgs.historical_data.yearly_metrics[k].year
LatestRow ==
    CHOOSE r \in {trendArgs.historical_data.yearly_metrics[k] : k \in 1..TrendYears} :
        \A k \in 1..TrendYears : r.year >= trendArgs.historical_data.yearly_metrics[k].year
CagrKey == [revenue |-> "revenue_cagr", ebitda |-> "ebitda_cagr", fcfe |-> "fcfe_cagr"]
\* rate is (last/first)^(1/(n-1)) - 1 for the metric: the (n-1)th power of
\* 1 + rate is last/first, and 1 + rate is the non-negative root
IsCagrOf(rate, metric) ==
    /\ TrendYears > 2 => RLe(Zero, RAdd(One, rate))
    /\ RPow(RAdd(One, rate), TrendYears - 1) = RDiv(LatestRow[metric], EarliestRow[metric])
\* the maturity factor the latest revenue calls for (amounts in millions)
SizeFactor ==
    IF RLt(float(100000), LatestRow.revenue) THEN R(7, 10)
    ELSE IF RLt(float(10000), LatestRow.revenue) THEN R(17, 20)
    ELSE One
Measurable(metric) ==
    RLt(Zero, EarliestRow[metric]) /\ LatestRow[metric] # Zero

\* C28 (as amended): with at least 2 years of data analyze_growth_trends
\* sets a metric's CAGR to (last/first)^(1/(n-1)) - 1 when the metric's
\* first-year value is positive and its last-year value is not zero;
\* otherwise the revenue CAGR is the flat 5%, the EBITDA CAGR the revenue
\* CAGR and the FCFE CAGR the EBITDA CAGR; each is then multiplied by the
\* maturity factor.  With fewer than 2 years all three are the flat 5%.
C28_CagrOrFallback ==
    TrendsReturned =>
        IF TrendYears < 2
        THEN \A m \in DOMAIN CagrKey : trendRet.trends[CagrKey[m]] = R(1, 20)
        ELSE /\ \A m \in DOMAIN CagrKey :
                    Measurable(m) =>
                        IsCagrOf(RDiv(trendRet.trends[CagrKey[m]], SizeFactor), m)
             /\ ~Measurable("revenue") =>
                    trendRet.trends.revenue_cagr = RMul(R(1, 20), SizeFactor)
             /\ ~Measurable("ebitda") =>
                    trendRet.trends.ebitda_cagr = trendRet.trends.revenue_cagr
             /\ ~Measurable("fcfe") =>
                    trendRet.trends.fcfe_cagr = trendRet.trends.ebitda_cagr

\* three years of a large company: revenue 240.1 -> 348.1 billion is 10/49
\* a year, recorded as 0.7 * 10/49
C28_Witness ==
    /\ TrendsReturned
    /\ TrendYears = 3
    /\ LatestRow.revenue = float(348100)
    /\ trendRet.trends.revenue_cagr = R(1, 7)
    /\ trendRet.trends.maturity_factor = R(7, 10)

C28_WitnessFollowsEbitda ==
    /\ TrendsReturned
    /\ TrendYears = 3
    /\ EarliestRow.fcfe = Zero
    /\ trendRet.trends.ebitda_cagr = R(1, 4)
    /\ trendRet.trends.fcfe_cagr = R(1, 4)

\* C28 (as stated): each metric's CAGR is (last/first)^(1/(n-1)) - 1 when
\* the metric's first-year value is positive, and the flat 5% when it is not
\* or when fewer than 2 years exist.
C28_Original_FlatDefault ==
    TrendsReturned =>
        \A m \in DOMAIN CagrKey :
            IF TrendYears >= 2 /\ RLt(Zero, EarliestRow[m])
            THEN IsCagrOf(trendRet.trends[CagrKey[m]], m)
            ELSE trendRet.trends[CagrKey[m]] = R(1, 20)


(***************************************************************************)
(* enhanced_DCF_with_trends: the schedule, the terminal growth rate and    *)
(* the record returned.                                                    *)
(***************************************************************************)
EnhEnded == pc = "enhanced_DCF_with_trends"
EnhValued == EnhEnded /\ Has(enhRet.value, "dcf_valuation")
EnhEnv == enhArgs.env
\* the rows of the history of a valuation that completed, by year
EnhHistory == SortByYear(EnhEnv.historical.data.yearly_metrics)
\* the rate of year k with each factor applied once to the blend of the
\* figures computed from the history
OnceScaledRate(k) ==
    BoundGrowth(RMul(RMul(BlendedGrowth(k - 1, enhArgs.forecast_years,
                                        RawTrends(EnhHistory).recent_revenue_growth,
                                        RawTrends(EnhHistory).revenue_cagr),
                          MaturityFactor(EnhHistory[Len(EnhHistory)])),
                     DebtConstraintFactor(EnhHistory[Len(EnhHistory)])))

\* C27: in the enhanced path every rate of the schedule is
\* clamp(blend * maturity_factor * debt_constraint_factor), the blend formed
\* from the recent-growth and CAGR figures as computed from the historical
\* data, so that each factor is applied exactly once to each rate.
C27_EachFactorAppliedOnce ==
    (EnhValued /\ Len(EnhHistory) >= 2) =>
        \A k \in 1..Len(enhRet.value.variable_growth_rates) :
            enhRet.value.variable_growth_rates[k] = OnceScaledRate(k)

\* C21: in enhanced mode the perpetual growth rate used for the terminal
\* value lies within [0.02, 0.04], whatever the caller passes: the rate
\* handed to the valuation, which is the rate the record reports, is at
\* least 2% and at most 4%.
C21_TerminalGrowthWithinBounds ==
    EnhValued =>
        /\ enhRet.value.terminal_growth_rate
             = TerminalGrowthUsed(enhArgs.perpetual_growth_rate)
        /\ RLe(R(1, 50), TerminalGrowthUsed(enhArgs.perpetual_growth_rate))
        /\ RLe(TerminalGrowthUsed(enhArgs.perpetual_growth_rate), R(1, 25))

\* the stages of a call and their failures
FetchFailed ==
    \/ EnhEnv.historical.exc # ""
    \/ Has(EnhEnv.historical.data, "error")
    \/ EnhEnv.statements.exc # ""
TrendAnalysisFailed ==
    /\ EnhEnv.historical.exc = ""
    /\ analyze_growth_trends(EnhEnv.historical.data).exc # ""
\* the discount-rate estimate, the schedule, the valuation or the return
\* metrics raised
LaterStageFailed == EnhBody(enhArgs, EnhEnv).exc # ""
StageFailed == FetchFailed \/ TrendAnalysisFailed \/ LaterStageFailed

\* C29: enhanced_DCF_with_trends never propagates an exception: any failure
\* in the data fetch, the trend analysis, the discount-rate estimate or the
\* valuation gives a returned record with an 'error' entry and no
\* 'dcf_valuation' entry, and a record with 'dcf_valuation' is returned only
\* when the valuation completed.
C29_FailuresBecomeErrorRecords ==
    EnhEnded =>
        /\ enhRet.exc = ""
        /\ StageFailed =>
              /\ Has(enhRet.value, "error")
              /\ ~Has(enhRet.value, "dcf_valuation")
        /\ Has(enhRet.value, "dcf_valuation") =>
              /\ ~StageFailed
              /\ ~Has(enhRet.value, "error")
              /\ Has(enhRet.value.dcf_valuation, "enterprise_value")

\* the fetches and the trend analysis succeed and the valuation raises
C29_Witness ==
    /\ EnhEnded
    /\ ~FetchFailed
    /\ ~TrendAnalysisFailed
    /\ LaterStageFailed
    /\ Has(enhRet.value, "error")
    /\ ~Has(enhRet.value, "dcf_valuation")

=============================================================================
